---- MODULE Spec2Model ----
(***************************************************************************)
(* A model of rustea: the evolutionary driver (SimpleGA::run), the fitness *)
(* evaluator and its shared counter, the variation and selection          *)
(* operators, the discrete domains, Factorization and the multivariate    *)
(* model estimation.                                                       *)
(*                                                                         *)
(* Specifications:                                                         *)
(*   Spec      the driver: one run(budget) of SimpleGA                     *)
(*   FairSpec  the driver, with the progress a running thread makes        *)
(*   SpecEval  one create_offspring call, its tasks spread over threads    *)
(*   SpecFact  Factorization::univariate / join / join_all                 *)
(*   SpecDom   domain construction, get and index_of                       *)
(*   SpecModel MultivariateModel::estimate_from_population                 *)
(***************************************************************************)
EXTENDS Integers, Sequences, FiniteSets, TLC

\* ------------------------------------------------------------- bounds
\* Largest initial population of a run.
MaxPop == 2
\* Number of genes of the (Boolean) genome of a run.
GenomeLen == 1
\* Largest evaluation budget handed to run: room for a generation of the
\* largest population, and for several of a smaller one.
MaxBudget == MaxPop + 1
\* Largest tournament size of a TournamentSelection.
MaxTournament == MaxPop
\* Largest number of worker threads of the pool that runs a create_offspring.
MaxThreads == 2
\* Largest L of a Factorization::univariate(L) whose joins are explored.
MaxFactLen == 3
\* Number of times a factorization may hold an index again (a join of a
\* factor with itself repeats the factor's indices).
MaxRepeats == 1
\* Integral alleles are 0..MaxAllele.
MaxAllele == 2
\* Longest vector handed to a domain constructor, and longest allele vector
\* a domain is grown to.
MaxDomainLen == 3
\* Longest argument list of one idom! invocation.
MaxIdomItems == 2
\* Largest genome a multivariate model is estimated over.
MaxGenes == 2

VARIABLES
    \* SimpleGA (simplega.rs:19-34) and the state of run
    population, fitness_func_counter, selection_operator, variation_operator,
    target_fitness, goal, evaluation_budget, offspring, pc, status,
    \* FitnessEvaluator.counter's Mutex (fitness.rs:54) and the worker pool
    \* running the closures of one create_offspring call
    counter_lock, tasks, threads, num_calls, counter_at_call,
    \* a genome and a Factorization (model.rs:86-88), the items of its last
    \* join_all, the MultivariateModel last estimated
    cur_genome, cur_factorization, join_all_result, cur_model,
    \* the UnivariateModel last estimated (model.rs:36-66), the individual
    \* last sampled from a model, and a SimpleGABuilder (simplega.rs:104-121)
    cur_univariate, sampled, builder,
    \* a discrete domain (gene.rs:296-301, 421) and the last get/index_of
    \* round trip made on it
    cur_domain, lookup,
    \* "ok", or "panic" once a library call has panicked
    lib_pc,
    \* the local best_model of Ecga::select_model (ecga.rs:62), and the
    \* values its local model has held (ecga.rs:53, 76), oldest first
    cur_best_model, model_history

gaVars == <<population, fitness_func_counter, selection_operator,
            variation_operator, target_fitness, goal, evaluation_budget,
            offspring, pc, status>>

evalVars == <<counter_lock, tasks, threads, num_calls, counter_at_call>>

\* What is recorded of a call in progress, besides the state it works on.
histVars == <<cur_best_model, model_history>>

libVars == <<cur_genome, cur_factorization, join_all_result, cur_model,
            cur_univariate, sampled, builder, cur_domain, lookup, lib_pc,
            histVars>>

\* What the driver's steps leave alone.
notGaVars == <<evalVars, libVars>>

vars == <<gaVars, evalVars, libVars>>

\* ------------------------------------------------------------ helpers
\* Option<T>: None is the empty sequence, Some(x) the sequence of x.
None == <<>>
Some(x) == <<x>>
IsSome(o) == Len(o) = 1
Unwrap(o) == o[1]

Min2(a, b) == IF a <= b THEN a ELSE b
Max2(a, b) == IF a >= b THEN a ELSE b

\* All orderings of the indices 1..n (what a shuffle may produce).
RECURSIVE IndexPerms(_)
IndexPerms(S) ==
    IF S = {} THEN {<<>>}
    ELSE UNION {{<<x>> \o p : p \in IndexPerms(S \ {x})} : x \in S}

\* slice.shuffle(rng): every permutation of the slice.
Shuffles(s) == {[i \in 1..Len(s) |-> s[p[i]]] : p \in IndexPerms(1..Len(s))}

\* ------------------------------------------------- genome, individuals
\* bdom!(): BoolDomain, fixed order false, true.
BoolDomainGet(idx) == IF idx = 0 THEN FALSE ELSE TRUE
BoolDomainIndexOf(allele) == IF allele THEN 1 ELSE 0
BoolDomainLen == 2

Genotypes == [1..GenomeLen -> BOOLEAN]

\* The user's fitness function of the runs modelled here: OneMax, the number
\* of true alleles (spec S1).
RECURSIVE CountTrue(_)
CountTrue(g) == IF Len(g) = 0 THEN 0
                ELSE (IF g[1] THEN 1 ELSE 0) + CountTrue(Tail(g))
evaluation_func(genotype) == CountTrue(genotype)

\* Individual::from_genotype: fitness None.
from_genotype(genotype) == [genotype |-> genotype, fitness |-> None]

\* Individual::fitness: the value (the panic on None is a TLC error here: no
\* operation of the model reads the fitness of an unevaluated individual).
fitness(idv) == Unwrap(idv.fitness)

\* FitnessEvaluator::evaluate, the individual's side: set_fitness(fitness).
\* The counter's side is the +1 of each action that evaluates.
evaluate(idv) == [idv EXCEPT !.fitness = Some(evaluation_func(idv.genotype))]

\* FitnessEvaluator::cmp: better is Less.
Compare(a, b) == IF a < b THEN "Less" ELSE IF a > b THEN "Greater" ELSE "Equal"
\* A comparison that forgets to reverse the order under Maximize.
cmp_unreversed(g, a, b) == Compare(a, b)
cmp(g, a, b) == IF g = "Minimize" THEN Compare(a, b) ELSE Compare(b, a)
is_le(ord) == ord # "Greater"

\* Iterator::min_by over a non-empty sequence: the first minimum.
RECURSIVE min_by_idx(_, _, _, _)
min_by_idx(s, g, best, i) ==
    IF i > Len(s) THEN best
    ELSE min_by_idx(s, g,
            IF cmp(g, fitness(s[best]), fitness(s[i])) = "Greater" THEN i ELSE best,
            i + 1)
min_by(s, g) == s[min_by_idx(s, g, 1, 2)]

\* SimpleGA::best_individual: None on an empty population.
best_individual(pop, g) == IF Len(pop) = 0 THEN None ELSE Some(min_by(pop, g))

\* ------------------------------------------------------------ domains
\* A domain value is [kind |-> "Bool"] (BoolDomain) or
\* [kind |-> "Integral", alleles |-> <<...>>] (DisjointIntegralDomain).
BoolDomain == [kind |-> "Bool"]

\* slice::binary_search as core implements it (base/size halving): Ok(i) or
\* Err(i), with 0-based i. On a sorted slice without repeats it is the one
\* index of the value; otherwise it is whatever the probes lead to.
RECURSIVE binary_search_loop(_, _, _, _)
binary_search_loop(s, x, base, size) ==
    IF size > 1
    THEN LET half == size \div 2
             mid == base + half
         IN binary_search_loop(s, x, IF s[mid + 1] > x THEN base ELSE mid,
                               size - half)
    ELSE base
binary_search(s, x) ==
    IF Len(s) = 0 THEN <<"Err", 0>>
    ELSE LET base == binary_search_loop(s, x, 0, Len(s))
         IN IF s[base + 1] = x THEN <<"Ok", base>>
            ELSE <<"Err", base + (IF s[base + 1] < x THEN 1 ELSE 0)>>

\* DiscreteDomain::len
DomainLen(d) == IF d.kind = "Bool" THEN BoolDomainLen ELSE Len(d.alleles)
\* DiscreteDomain::get (idx 0-based; in range where the model calls it)
DomainGet(d, idx) == IF d.kind = "Bool" THEN BoolDomainGet(idx) ELSE d.alleles[idx + 1]
\* DiscreteDomain::index_of: Some(index), or None where the code panics
\* (binary_search(..).unwrap() on Err).
DomainIndexOf(d, allele) ==
    IF d.kind = "Bool" THEN Some(BoolDomainIndexOf(allele))
    ELSE LET r == binary_search(d.alleles, allele)
         IN IF r[1] = "Ok" THEN Some(r[2]) ELSE None
\* DiscreteDomain::iter: the alleles get(0), get(1), ...
DomainIter(d) == [i \in 1..DomainLen(d) |-> DomainGet(d, i - 1)]

\* Genome::with_bool_domain of the driver's runs.
BoolGenome == [i \in 1..GenomeLen |-> BoolDomain]

\* The genotypes of a genome: one allele of its domain at every gene.
RECURSIVE GenotypesOf(_)
GenotypesOf(genome) ==
    IF Len(genome) = 0 THEN {<<>>}
    ELSE {<<DomainGet(genome[1], k)>> \o rest :
            k \in 0..(DomainLen(genome[1]) - 1), rest \in GenotypesOf(Tail(genome))}

\* ---------------------------------------------------- univariate model
\* The counting loop with vec[allele_idx + 1] += 1 in place of
\* vec[allele_idx] += 1 (the last allele's individuals are dropped).
UnivariateCountsShifted(genome, pop) ==
    [i \in 1..Len(genome) |->
        [k \in 1..DomainLen(genome[i]) |->
            Cardinality({j \in 1..Len(pop) :
                DomainIndexOf(genome[i], pop[j].genotype[i]) = Some(k - 2)})]]

\* UnivariateModel::estimate_from_population: counts[idx][allele_idx + 1],
\* the weights of the per-position WeightedIndex (population non-empty: the
\* callers test the assert).
UnivariateCounts(genome, pop) ==
    [i \in 1..Len(genome) |->
        [k \in 1..DomainLen(genome[i]) |->
            Cardinality({j \in 1..Len(pop) :
                DomainIndexOf(genome[i], pop[j].genotype[i]) = Some(k - 1)})]]

\* A sampler that draws any allele of each domain, whatever its weight.
UnivariateSamplesAnyAllele(genome, counts) ==
    {from_genotype(h) : h \in GenotypesOf(genome)}

\* UnivariateModel::sample: position idx takes get(k) for an index k the
\* WeightedIndex can draw, i.e. one of positive weight.
UnivariateSamples(genome, counts) ==
    {from_genotype(h) : h \in
        {g \in GenotypesOf(genome) :
            \A i \in 1..Len(genome) :
                \E k \in 0..(DomainLen(genome[i]) - 1) :
                    counts[i][k + 1] > 0 /\ g[i] = DomainGet(genome[i], k)}}

\* ------------------------------------------------------- crossover
\* Children of which only the first takes the other parent's alleles on the
\* swapped positions; the second is a copy of its parent.
CrossChildrenOneSided(parent_a, parent_b, swapped) ==
    << from_genotype([i \in 1..Len(parent_a.genotype) |->
            IF swapped[i] THEN parent_b.genotype[i] ELSE parent_a.genotype[i]]),
       from_genotype(parent_b.genotype) >>

\* The two children of a pair, given for each position whether it is swapped.
CrossChildren(parent_a, parent_b, swapped) ==
    << from_genotype([i \in 1..Len(parent_a.genotype) |->
            IF swapped[i] THEN parent_b.genotype[i] ELSE parent_a.genotype[i]]),
       from_genotype([i \in 1..Len(parent_b.genotype) |->
            IF swapped[i] THEN parent_a.genotype[i] ELSE parent_b.genotype[i]]) >>

\* UniformCrossover::crossover: choices[idx] = gen_bool(probability); with
\* probability given as <<num, den>>, 0 never swaps and 1 always does.
UniformCrossoverChildren(probability, parent_a, parent_b) ==
    LET n == Len(parent_a.genotype)
        choices == {c \in [1..n -> BOOLEAN] :
                        /\ probability[1] = 0 => \A i \in 1..n : ~c[i]
                        /\ probability[1] = probability[2] => \A i \in 1..n : c[i]}
    IN {CrossChildren(parent_a, parent_b, c) : c \in choices}

\* OnePointCrossover::crossover: crossover_point in 0..=len, positions
\* idx >= crossover_point are swapped (idx 0-based).
OnePointCrossoverChildren(parent_a, parent_b) ==
    LET n == Len(parent_a.genotype)
    IN {CrossChildren(parent_a, parent_b,
            [i \in 1..n |-> (i - 1) >= crossover_point]) :
        crossover_point \in 0..n}

\* TwoPointCrossover::crossover: two points in 0..=len, positions between
\* them (both ends included) are swapped.
TwoPointCrossoverChildren(parent_a, parent_b) ==
    LET n == Len(parent_a.genotype)
    IN {CrossChildren(parent_a, parent_b,
            [i \in 1..n |-> /\ (i - 1) >= Min2(pts[1], pts[2])
                            /\ (i - 1) <= Max2(pts[1], pts[2])]) :
        pts \in (0..n) \X (0..n)}

crossover(op, parent_a, parent_b) ==
    IF op.kind = "UniformCrossover"
    THEN UniformCrossoverChildren(op.probability, parent_a, parent_b)
    ELSE IF op.kind = "OnePointCrossover"
    THEN OnePointCrossoverChildren(parent_a, parent_b)
    ELSE TwoPointCrossoverChildren(parent_a, parent_b)

\* impl_two_parent_crossover::create_offspring on an already shuffled
\* population: pairs (2i, 2i+1) for i < len/2, each pair's two children
\* evaluated and flattened in pair order.
RECURSIVE PairOffspring(_, _, _)
PairOffspring(op, shuffled, i) ==
    IF i >= Len(shuffled) \div 2 THEN {<<>>}
    ELSE {<<evaluate(ch[1]), evaluate(ch[2])>> \o rest :
            ch \in crossover(op, shuffled[2 * i + 1], shuffled[2 * i + 2]),
            rest \in PairOffspring(op, shuffled, i + 1)}

CrossoverOffspring(op, pop) ==
    UNION {PairOffspring(op, shuffled, 0) : shuffled \in Shuffles(pop)}

\* Individual::clone: the genotype and the fitness are copied.
clone(idv) == [genotype |-> idv.genotype, fitness |-> idv.fitness]

\* NoVariation::create_offspring: every individual cloned and the clone
\* evaluated.
NoVariationOffspring(pop) == {[i \in 1..Len(pop) |-> evaluate(clone(pop[i]))]}

\* Umda::create_offspring: |population| children sampled from the model and
\* evaluated.
UmdaOffspring(genome, pop) ==
    LET samples == UnivariateSamples(genome, UnivariateCounts(genome, pop))
    IN {[i \in 1..Len(pop) |-> evaluate(c[i])] : c \in [1..Len(pop) -> samples]}


\* ---------------------------------------------------- factorization
\* A Factorization is the sequence of its factors, each a sequence of
\* 0-based variable indices, as in the source.
univariate(len) == [i \in 1..len |-> <<i - 1>>]

\* The factors other than those at (0-based) idx_a and idx_b, in order.
RECURSIVE OtherFactors(_, _, _, _)
OtherFactors(factors, idx_a, idx_b, i) ==
    IF i > Len(factors) THEN <<>>
    ELSE (IF (i - 1) = idx_a \/ (i - 1) = idx_b THEN <<>> ELSE <<factors[i]>>)
         \o OtherFactors(factors, idx_a, idx_b, i + 1)

\* Factorization::join: factor idx_a extended by factor idx_b, pushed after
\* the other factors.
join(factors, idx_a, idx_b) ==
    LET joined == factors[idx_a + 1] \o factors[idx_b + 1]
    IN Append(OtherFactors(factors, idx_a, idx_b, 1), joined)

\* Factorization::join_all (n >= 1): for idx_a in 0..n-1, for idx_b in
\* idx_a+1..n, join(idx_a, idx_b), flattened in that order.
RECURSIVE join_all_from(_, _, _)
join_all_from(factors, idx_a, idx_b) ==
    LET n == Len(factors)
    IN IF idx_a >= n - 1 THEN <<>>
       ELSE IF idx_b >= n THEN join_all_from(factors, idx_a + 1, idx_a + 2)
       ELSE <<join(factors, idx_a, idx_b)>>
            \o join_all_from(factors, idx_a, idx_b + 1)
\* A join_all whose inner range starts at idx_a instead of idx_a + 1.
join_all_with_self(factors) == join_all_from(factors, 0, 0)
join_all(factors) == join_all_from(factors, 0, 1)

\* Factorization::iter: the non-empty factors, in order.
RECURSIVE iter_factors(_)
iter_factors(factors) ==
    IF Len(factors) = 0 THEN <<>>
    ELSE (IF Len(factors[1]) = 0 THEN <<>> ELSE <<factors[1]>>)
         \o iter_factors(Tail(factors))

\* --------------------------------------------------- multivariate model
RECURSIVE SumSeq(_)
SumSeq(s) == IF Len(s) = 0 THEN 0 ELSE s[1] + SumSeq(Tail(s))

\* A size that adds the domain lengths up instead of multiplying them.
RECURSIVE FactorSizeSum(_, _)
FactorSizeSum(genome, factor) ==
    IF Len(factor) = 0 THEN 0
    ELSE DomainLen(genome[factor[1] + 1]) + FactorSizeSum(genome, Tail(factor))

\* The number of joint outcomes of a factor: fold(1, acc * domain.len()).
RECURSIVE FactorSize(_, _)
FactorSize(genome, factor) ==
    IF Len(factor) = 0 THEN 1
    ELSE DomainLen(genome[factor[1] + 1]) * FactorSize(genome, Tail(factor))

\* The linear index with the factor's first variable as least significant
\* digit: sum over j of index_of(i_j, a_j) * product over m < j of |domain(i_m)|.
RECURSIVE IndexFirstLeast(_, _, _)
IndexFirstLeast(genome, factor, genotype) ==
    IF Len(factor) = 0 THEN 0
    ELSE LET domain == genome[factor[1] + 1]
         IN Unwrap(DomainIndexOf(domain, genotype[factor[1] + 1]))
            + DomainLen(domain) * IndexFirstLeast(genome, Tail(factor), genotype)

\* The linear index with the factor's first variable as most significant
\* digit (the rank of the outcome in lexicographic order): sum over j of
\* index_of(i_j, a_j) * product over m > j of |domain(i_m)|.
RECURSIVE IndexFirstMost(_, _, _)
IndexFirstMost(genome, factor, genotype) ==
    IF Len(factor) = 0 THEN 0
    ELSE LET n == Len(factor)
             domain == genome[factor[n] + 1]
         IN IndexFirstMost(genome, SubSeq(factor, 1, n - 1), genotype)
                * DomainLen(domain)
            + Unwrap(DomainIndexOf(domain, genotype[factor[n] + 1]))

\* The fold of estimate_from_population that turns a factor's alleles into
\* the index of the count cell: at element i every earlier entry of acc is
\* multiplied by the i-th domain's length and entry i by the allele's index.
RECURSIVE LinearIndexFold(_, _, _, _, _)
LinearIndexFold(genome, factor, genotype, acc, i) ==
    IF i > Len(factor) THEN acc
    ELSE LET domain == genome[factor[i] + 1]
             l == DomainLen(domain)
             a == Unwrap(DomainIndexOf(domain, genotype[factor[i] + 1]))
             new_acc == [j \in 1..Len(factor) |->
                            IF j < i THEN acc[j] * l
                            ELSE IF j = i THEN acc[j] * a
                            ELSE acc[j]]
         IN LinearIndexFold(genome, factor, genotype, new_acc, i + 1)
LinearIndex(genome, factor, genotype) ==
    SumSeq(LinearIndexFold(genome, factor, genotype,
                           [j \in 1..Len(factor) |-> 1], 1))

\* MultivariateModel::estimate_from_population (population non-empty: the
\* callers test the assert). counts[f][k + 1] is the number of individuals
\* whose alleles on factor f have linear index k; the stored probability is
\* counts[f][k + 1] / sample_size. A cell index past the vector (the code's
\* out-of-bounds panic) is recorded in out_of_range.
estimate_from_population(genome, pop, factorization) ==
    LET fs == iter_factors(factorization)
        idx == [f \in 1..Len(fs) |->
                    [j \in 1..Len(pop) |-> LinearIndex(genome, fs[f], pop[j].genotype)]]
        n == [f \in 1..Len(fs) |-> FactorSize(genome, fs[f])]
    IN [factorization |-> factorization,
        counts |-> [f \in 1..Len(fs) |->
            [k \in 1..n[f] |-> Cardinality({j \in 1..Len(pop) : idx[f][j] = k - 1})]],
        out_of_range |-> \E f \in 1..Len(fs), j \in 1..Len(pop) : idx[f][j] >= n[f],
        sample_size |-> Len(pop)]

\* Divisors that are the products of the lengths of the domains before
\* each position of the factor.
DivisorsOfEarlier(genome, factor) ==
    [j \in 1..Len(factor) |-> FactorSize(genome, SubSeq(factor, 1, j - 1))]

\* The divisors of MultivariateModel::sample: divisors[i] is the product of
\* the lengths of the domains after position i of the factor.
RECURSIVE DivisorsFold(_, _, _, _)
DivisorsFold(genome, factor, acc, i) ==
    IF i > Len(factor) THEN acc
    ELSE LET l == DomainLen(genome[factor[i] + 1])
         IN DivisorsFold(genome, factor,
                [j \in 1..Len(factor) |-> IF j < i THEN acc[j] * l ELSE acc[j]],
                i + 1)
Divisors(genome, factor) ==
    DivisorsFold(genome, factor, [j \in 1..Len(factor) |-> 1], 1)

\* The unpacking loop of sample: idx = raw_idx / divisors[i];
\* raw_idx = raw_idx % divisors[i].
RECURSIVE UnpackFrom(_, _, _)
UnpackFrom(divisors, raw_idx, i) ==
    IF i > Len(divisors) THEN <<>>
    ELSE <<raw_idx \div divisors[i]>>
         \o UnpackFrom(divisors, raw_idx % divisors[i], i + 1)
Unpack(genome, factor, raw_idx) == UnpackFrom(Divisors(genome, factor), raw_idx, 1)

\* A sampler that draws every raw index, whatever its weight.
MultivariateSamplesAnyIndex(genome, model) ==
    {from_genotype(g) : g \in GenotypesOf(genome)}

\* MultivariateModel::sample: per factor a raw index the WeightedIndex can
\* draw (positive probability), unpacked and written at the factor's
\* positions.
MultivariateSamples(genome, model) ==
    LET fs == iter_factors(model.factorization)
        drawn == [f \in 1..Len(fs) |->
                    {Unpack(genome, fs[f], raw_idx) :
                        raw_idx \in {r \in 0..(FactorSize(genome, fs[f]) - 1) :
                                        model.counts[f][r + 1] > 0}}]
    IN {from_genotype(g) : g \in
        {h \in GenotypesOf(genome) :
            \A f \in 1..Len(fs) :
                \E allele_idxs \in drawn[f] :
                    \A j \in 1..Len(fs[f]) :
                        h[fs[f][j] + 1] =
                            DomainGet(genome[fs[f][j] + 1], allele_idxs[j])}}

\* log2(n) in millionths, rounded, for the sample sizes of the model.
Log2Micro(n) ==
    CASE n = 1 -> 0        [] n = 2 -> 1000000  [] n = 3 -> 1584963
      [] n = 4 -> 2000000  [] n = 5 -> 2321928  [] n = 6 -> 2584963
      [] n = 7 -> 2807355  [] n = 8 -> 3000000  [] n = 9 -> 3169925
      [] n = 10 -> 3321928 [] n = 11 -> 3459432 [] n = 12 -> 3584963

\* compressed_population_complexity, in millionths:
\* sample_size * sum over the cells with p > 0 of -p * log2(p), with
\* p = c / sample_size, i.e. the sum of c * (log2(sample_size) - log2(c)).
compressed_population_complexity(model) ==
    SumSeq([f \in 1..Len(model.counts) |->
        SumSeq([k \in 1..Len(model.counts[f]) |->
            LET c == model.counts[f][k]
            IN IF c = 0 THEN 0
               ELSE c * (Log2Micro(model.sample_size) - Log2Micro(c))])])

\* A model complexity with log2(sample_size) in place of
\* log2(sample_size + 1).
model_complexity_of_sample_size(model) ==
    Log2Micro(model.sample_size)
        * SumSeq([f \in 1..Len(model.counts) |-> Len(model.counts[f]) - 1])

\* model_complexity, in millionths: log2(sample_size + 1) * sum(len - 1).
model_complexity(model) ==
    Log2Micro(model.sample_size + 1)
        * SumSeq([f \in 1..Len(model.counts) |-> Len(model.counts[f]) - 1])

\* combined_complexity = CPC + 0.2 * MC, here times five (in millionths).
combined_complexity(model) ==
    5 * compressed_population_complexity(model) + model_complexity(model)


\* ----------------------------------------------------------------- ECGA
\* Whether s is ordered best-first under the goal's cmp.
IsSortedBy(s, g) ==
    \A i, j \in 1..Len(s) :
        i < j => cmp(g, fitness(s[i]), fitness(s[j])) # "Greater"

\* Ecga::select_individuals: sort_unstable_by(cmp), then take
\* (p_best * len) as usize. The order among equals is any; p_best is the
\* fraction <<num, den>>.
select_individuals(op, pop, g) ==
    LET take == (op.p_best[1] * Len(pop)) \div op.p_best[2]
    IN {SubSeq(sorted, 1, take) : sorted \in {s \in Shuffles(pop) : IsSortedBy(s, g)}}

\* The first candidate of least combined complexity (min_by with total_cmp
\* keeps the earlier of two equals), as an index into candidates.
RECURSIVE min_by_complexity(_, _, _)
min_by_complexity(models, best, i) ==
    IF i > Len(models) THEN best
    ELSE min_by_complexity(models,
            IF combined_complexity(models[best]) > combined_complexity(models[i])
            THEN i ELSE best,
            i + 1)

\* Ecga::select_model: the greedy loop. The candidates are the joins of the
\* current factorization; the best replaces the model if its combined
\* complexity is <= the model's, else the loop breaks; no candidate breaks it.
RECURSIVE select_model_loop(_, _, _)
select_model_loop(genome, selection, model) ==
    LET candidates == join_all(model.factorization)
        models == [c \in 1..Len(candidates) |->
                    estimate_from_population(genome, selection, candidates[c])]
    IN IF Len(candidates) = 0 THEN model
       ELSE LET best_model == models[min_by_complexity(models, 1, 2)]
            IN IF combined_complexity(best_model) <= combined_complexity(model)
               THEN select_model_loop(genome, selection, best_model)
               ELSE model
select_model(genome, initial_factorization, selection) ==
    select_model_loop(genome, selection,
        estimate_from_population(genome, selection, initial_factorization))

\* Ecga::create_offspring panics when nothing is selected: the model's
\* estimate asserts a non-empty population.
EcgaPanics(op, pop) == (op.p_best[1] * Len(pop)) \div op.p_best[2] = 0

\* Ecga::create_offspring: |population| children sampled from the selected
\* model and evaluated.
EcgaOffspring(genome, op, pop, g) ==
    UNION {LET model == select_model(genome, univariate(Len(genome)), selection)
               samples == MultivariateSamples(genome, model)
           IN {[i \in 1..Len(pop) |-> evaluate(c[i])] :
                    c \in [1..Len(pop) -> samples]} :
           selection \in select_individuals(op, pop, g)}

\* ------------------------------------------------------------ variation
\* Umda::create_offspring panics on an empty population (the estimate's
\* assert); the other operators return no child for one.
VariationPanics(op, pop) ==
    \/ op.kind = "Umda" /\ Len(pop) = 0
    \/ op.kind = "Ecga" /\ EcgaPanics(op, pop)

\* VariationOperator::create_offspring: the vectors of evaluated children the
\* call may return.
create_offspring(op, pop, g) ==
    IF op.kind = "NoVariation" THEN NoVariationOffspring(pop)
    ELSE IF op.kind = "Umda" THEN UmdaOffspring(BoolGenome, pop)
    ELSE IF op.kind = "Ecga" THEN EcgaOffspring(BoolGenome, op, pop, g)
    ELSE CrossoverOffspring(op, pop)

\* ------------------------------------------------------------ selection
\* slice::sort_by (stable): each element goes after the elements that are
\* not Greater than it.
RECURSIVE InsertSorted(_, _, _)
InsertSorted(sorted, x, g) ==
    IF Len(sorted) = 0 THEN <<x>>
    ELSE IF cmp(g, fitness(sorted[1]), fitness(x)) = "Greater" THEN <<x>> \o sorted
    ELSE <<sorted[1]>> \o InsertSorted(Tail(sorted), x, g)
RECURSIVE sort_by(_, _)
sort_by(s, g) ==
    IF Len(s) = 0 THEN <<>>
    ELSE InsertSorted(sort_by(SubSeq(s, 1, Len(s) - 1), g), s[Len(s)], g)

\* A truncation that keeps the last len elements.
truncate_front(s, len) ==
    IF len >= Len(s) THEN s ELSE SubSeq(s, Len(s) - len + 1, Len(s))

\* Vec::truncate
truncate(s, len) == IF len >= Len(s) THEN s ELSE SubSeq(s, 1, len)

\* A truncation that extends the offspring with the population.
TruncationSelectOffspringFirst(pop, offs, g) ==
    LET population_size == Len(pop)
    IN truncate(sort_by(offs \o pop, g), population_size)

\* TruncationSelection::select
TruncationSelect(pop, offs, g) ==
    LET population_size == Len(pop)
    IN truncate(sort_by(pop \o offs, g), population_size)

\* CopyOffspringSelection::select: clear, then extend_from_slice(offspring).
CopyOffspringSelect(pop, offs) == offs

\* NoSelection::select
NoSelect(pop, offs) == pop

\* TournamentSelection::select, the pool.
TournamentPool(op, pop, offs) ==
    (IF op.include_parents THEN pop ELSE <<>>) \o offs

\* TournamentSelection::select panics: an assert fails, or the remainder by
\* a pool of size zero.
TournamentPanics(op, pop, offs) ==
    LET pool_size == Len(TournamentPool(op, pop, offs))
    IN IF pool_size % op.tournament_size # 0 THEN TRUE
       ELSE IF pool_size = 0 THEN TRUE
       ELSE (op.tournament_size * Len(pop)) % pool_size # 0

\* Winners that are the first member of each group, whatever its fitness.
FirstOfGroups(op, shuffled, g) ==
    LET k == op.tournament_size
    IN [i \in 1..(Len(shuffled) \div k) |-> shuffled[k * (i - 1) + 1]]

\* The winners of one iteration over a shuffled pool: per tournament i the
\* first best of pool[k*i .. k*i + k].
Winners(op, shuffled, g) ==
    LET k == op.tournament_size
    IN [i \in 1..(Len(shuffled) \div k) |->
            min_by(SubSeq(shuffled, k * (i - 1) + 1, k * (i - 1) + k), g)]

\* num_iterations iterations, each appending the winners of a fresh shuffle.
RECURSIVE TournamentRounds(_, _)
TournamentRounds(round_winners, num_iterations) ==
    IF num_iterations = 0 THEN {<<>>}
    ELSE {w \o rest : w \in round_winners,
                      rest \in TournamentRounds(round_winners, num_iterations - 1)}

\* TournamentSelection::select when it does not panic.
TournamentSelect(op, pop, offs, g) ==
    LET pool == TournamentPool(op, pop, offs)
        num_iterations == (op.tournament_size * Len(pop)) \div Len(pool)
        round_winners == {Winners(op, shuffled, g) : shuffled \in Shuffles(pool)}
    IN TournamentRounds(round_winners, num_iterations)

SelectionPanics(op, pop, offs) ==
    op.kind = "Tournament" /\ TournamentPanics(op, pop, offs)

\* SelectionOperator::select: the populations the call may leave.
select(op, pop, offs, g) ==
    IF op.kind = "NoSelection" THEN {NoSelect(pop, offs)}
    ELSE IF op.kind = "CopyOffspring" THEN {CopyOffspringSelect(pop, offs)}
    ELSE IF op.kind = "Truncation" THEN {TruncationSelect(pop, offs, g)}
    ELSE TournamentSelect(op, pop, offs, g)


\* --------------------------------------------------------------- driver
\* The variation operators a run is built with. p_best and probability are
\* fractions <<num, den>>; 1/2 is UniformCrossover's default.
VariationOperators ==
    {[kind |-> "NoVariation"], [kind |-> "Umda"],
     [kind |-> "Ecga", p_best |-> <<1, 2>>], [kind |-> "Ecga", p_best |-> <<1, 1>>],
     [kind |-> "UniformCrossover", probability |-> <<1, 2>>],
     [kind |-> "OnePointCrossover"], [kind |-> "TwoPointCrossover"]}

SelectionOperators ==
    {[kind |-> "NoSelection"], [kind |-> "CopyOffspring"], [kind |-> "Truncation"]}
    \cup {[kind |-> "Tournament", tournament_size |-> k, include_parents |-> b] :
            k \in 1..MaxTournament, b \in BOOLEAN}

\* SimpleGABuilder::with_population / random_population: unevaluated
\* individuals.
InitialPopulations ==
    UNION {[1..n -> {from_genotype(g) : g \in Genotypes}] : n \in 0..MaxPop}

\* The worker pool at rest (the driver's own calls are sequential).
EvalIdle ==
    /\ counter_lock = 0
    /\ tasks = <<>>
    /\ threads = <<>>
    /\ num_calls = 0
    /\ counter_at_call = 0

\* No call of select_model has been made.
HistIdle == cur_best_model = None /\ model_history = <<>>

\* No factorization, model or domain under study.
LibIdle ==
    /\ HistIdle
    /\ cur_genome = <<>>
    /\ cur_factorization = <<>>
    /\ join_all_result = None
    /\ cur_model = None
    /\ cur_univariate = None
    /\ sampled = None
    /\ builder = None
    /\ cur_domain = [kind |-> "Integral", alleles |-> <<>>]
    /\ lookup = None
    /\ lib_pc = "ok"

\* SimpleGABuilder::build, before run is called.
Init ==
    /\ EvalIdle
    /\ LibIdle
    /\ population \in InitialPopulations
    /\ fitness_func_counter = 0
    /\ selection_operator \in SelectionOperators
    /\ variation_operator \in VariationOperators
    /\ target_fitness \in {None} \cup {Some(t) : t \in 0..GenomeLen}
    /\ goal \in {"Minimize", "Maximize"}
    /\ evaluation_budget \in 0..MaxBudget
    /\ offspring = <<>>
    /\ pc = "start"
    /\ status = None

\* FitnessEvaluator::evaluations
evaluations == fitness_func_counter

\* A loop guard that also spends the overshoot allowance.
LoopGuardWithAllowance == evaluations < evaluation_budget + Len(population)

\* run, the guard of the main loop.
LoopGuard == evaluations < evaluation_budget

\* The target test of run: a target is configured, there is a best
\* individual, and cmp(best.fitness(), target).is_le().
TargetTest ==
    /\ IsSome(target_fitness)
    /\ IsSome(best_individual(population, goal))
    /\ is_le(cmp(goal, fitness(Unwrap(best_individual(population, goal))),
                 Unwrap(target_fitness)))

\* run, the initial evaluation: evaluate on every individual, one count each.
InitialEvaluation ==
    /\ pc = "start"
    /\ population' = [i \in 1..Len(population) |-> evaluate(population[i])]
    /\ fitness_func_counter' = fitness_func_counter + Len(population)
    /\ pc' = "loop"
    /\ UNCHANGED <<selection_operator, variation_operator, target_fitness, goal,
                   evaluation_budget, offspring, status>>
    /\ UNCHANGED notGaVars

\* A return that tests the target once more after the loop has ended.
ReturnTestingTargetLast ==
    /\ pc = "loop"
    /\ ~LoopGuard
    /\ status' = Some(<<IF TargetTest THEN "TargetReached" ELSE "BudgetReached",
                        evaluations>>)
    /\ pc' = "done"
    /\ UNCHANGED <<population, fitness_func_counter, selection_operator,
                   variation_operator, target_fitness, goal, evaluation_budget,
                   offspring>>
    /\ UNCHANGED notGaVars

\* run, the loop guard fails: Status::BudgetReached(evaluations()).
ReturnBudgetReached ==
    /\ pc = "loop"
    /\ ~LoopGuard
    /\ status' = Some(<<"BudgetReached", evaluations>>)
    /\ pc' = "done"
    /\ UNCHANGED <<population, fitness_func_counter, selection_operator,
                   variation_operator, target_fitness, goal, evaluation_budget,
                   offspring>>
    /\ UNCHANGED notGaVars

\* run, the target test succeeds: Status::TargetReached(evaluations()).
ReturnTargetReached ==
    /\ pc = "loop"
    /\ LoopGuard
    /\ TargetTest
    /\ status' = Some(<<"TargetReached", evaluations>>)
    /\ pc' = "done"
    /\ UNCHANGED <<population, fitness_func_counter, selection_operator,
                   variation_operator, target_fitness, goal, evaluation_budget,
                   offspring>>
    /\ UNCHANGED notGaVars

\* run, "Perform variation": create_offspring; every child returned was
\* evaluated, one count each.
Variation ==
    /\ pc = "loop"
    /\ LoopGuard
    /\ ~TargetTest
    /\ ~VariationPanics(variation_operator, population)
    /\ offspring' \in create_offspring(variation_operator, population, goal)
    /\ fitness_func_counter' = fitness_func_counter + Len(offspring')
    /\ pc' = "select"
    /\ UNCHANGED <<population, selection_operator, variation_operator,
                   target_fitness, goal, evaluation_budget, status>>
    /\ UNCHANGED notGaVars

\* create_offspring panics; run does not catch it.
VariationPanic ==
    /\ pc = "loop"
    /\ LoopGuard
    /\ ~TargetTest
    /\ VariationPanics(variation_operator, population)
    /\ pc' = "panic"
    /\ UNCHANGED <<population, fitness_func_counter, selection_operator,
                   variation_operator, target_fitness, goal, evaluation_budget,
                   offspring, status>>
    /\ UNCHANGED notGaVars

\* run, "Perform selection": select(&mut population, offspring, ..).
Selection ==
    /\ pc = "select"
    /\ ~SelectionPanics(selection_operator, population, offspring)
    /\ population' \in select(selection_operator, population, offspring, goal)
    /\ offspring' = <<>>
    /\ pc' = "loop"
    /\ UNCHANGED <<fitness_func_counter, selection_operator, variation_operator,
                   target_fitness, goal, evaluation_budget, status>>
    /\ UNCHANGED notGaVars

\* select panics; run does not catch it.
SelectionPanic ==
    /\ pc = "select"
    /\ SelectionPanics(selection_operator, population, offspring)
    /\ pc' = "panic"
    /\ UNCHANGED <<population, fitness_func_counter, selection_operator,
                   variation_operator, target_fitness, goal, evaluation_budget,
                   offspring, status>>
    /\ UNCHANGED notGaVars

Next ==
    \/ InitialEvaluation
    \/ ReturnBudgetReached
    \/ ReturnTargetReached
    \/ Variation
    \/ VariationPanic
    \/ Selection
    \/ SelectionPanic

Spec == Init /\ [][Next]_vars

\* The thread that called run keeps running until run returns or panics.
FairSpec == Init /\ [][Next]_vars /\ WF_vars(Next)

\* ------------------------------------------------------ driver claims
\* C1: after select returns, the population holds exactly as many
\* individuals as before the call, for every selection operator and every
\* offspring vector a built-in variation operator produced.
C1_SelectKeepsSize ==
    [][(pc = "select" /\ pc' = "loop") => Len(population') = Len(population)]_vars

\* C2: after run(budget) returns, evaluations() <= budget + |population|
\* and evaluations() >= 1, for every budget and every initial population.
C2_EvaluationsBounds ==
    pc = "done" =>
        /\ evaluations <= evaluation_budget + Len(population)
        /\ evaluations >= 1

\* C2 as amended: after run(budget) returns, evaluations() <= budget +
\* |population|; evaluations() >= 1 when the population is not empty, and
\* an empty population returns with no evaluation at all (a non-empty
\* initial population is never empty at a return).
C2_EvaluationsBoundsNonEmpty ==
    pc = "done" =>
        /\ evaluations <= evaluation_budget + Len(population)
        /\ Len(population) > 0 => evaluations >= 1
        /\ Len(population) = 0 => evaluations = 0

\* C2's case: a run that returned after a generation overshot the budget.
C2_Witness ==
    /\ pc = "done"
    /\ Len(population) > 0
    /\ evaluations > evaluation_budget
    /\ evaluations > Len(population)

\* C3: every run(budget) eventually returns with a status, because every
\* generation that does not return strictly increases evaluations().
C3_RunReturns ==
    /\ [][(pc = "loop" /\ pc' = "select") =>
            fitness_func_counter' > fitness_func_counter]_vars
    /\ <>(pc = "done" /\ IsSome(status))

\* "At least as good as the target under the goal ordering", read off the
\* population: some individual's fitness is <= the target under Minimize,
\* >= the target under Maximize.
TargetMet ==
    /\ IsSome(target_fitness)
    /\ \E i \in 1..Len(population) :
            IF goal = "Minimize"
            THEN fitness(population[i]) <= Unwrap(target_fitness)
            ELSE fitness(population[i]) >= Unwrap(target_fitness)

\* C6: an iteration entered with evaluations() < budget returns
\* TargetReached(evaluations()) at once when the target is met, with no
\* variation, selection or evaluation; otherwise it calls variation and,
\* when that returns, selection.
C6_TargetBeforeVariation ==
    [][/\ (pc = "loop" /\ evaluations < evaluation_budget) =>
            IF TargetMet
            THEN /\ pc' = "done"
                 /\ status' = Some(<<"TargetReached", evaluations>>)
                 /\ UNCHANGED <<population, offspring, fitness_func_counter>>
            ELSE /\ pc' \in {"select", "panic"}
                 /\ status' = None
                 /\ UNCHANGED population
       /\ pc = "select" =>
            /\ pc' \in {"loop", "panic"}
            /\ UNCHANGED fitness_func_counter]_vars

\* C6's case: a Maximize run that met its target after at least one
\* generation and returned TargetReached.
C6_Witness ==
    /\ pc = "done"
    /\ goal = "Maximize"
    /\ IsSome(status) /\ Unwrap(status)[1] = "TargetReached"
    /\ evaluations < evaluation_budget
    /\ Len(population) > 1

\* ------------------------------------------- create_offspring on a pool
\* One create_offspring call whose closures run on a pool of worker
\* threads.  A task is one closure of the parallel iterator; a thread runs
\* FitnessEvaluator::evaluate statement by statement.

CrossoverKinds == {"UniformCrossover", "OnePointCrossover", "TwoPointCrossover"}

\* A crossover closure that evaluates its first child only.
closure_evaluations_first_only(op) == 1

\* Number of evaluate calls in one closure: a crossover closure evaluates
\* children[0] and children[1], the other operators evaluate their one child.
closure_evaluations(op) == IF op.kind \in CrossoverKinds THEN 2 ELSE 1

\* Number of children one closure returns.
closure_children(op) == IF op.kind \in CrossoverKinds THEN 2 ELSE 1

\* The closures of the parallel iterator for the children genotypes gs, in
\* iteration order; no child is evaluated yet, no closure is claimed.
make_tasks(op, gs) ==
    LET c == closure_children(op)
    IN  [k \in 1..(Len(gs) \div c) |->
            [children |-> [j \in 1..c |-> from_genotype(gs[(k - 1) * c + j])],
             evals    |-> [j \in 1..c |-> 0],
             next     |-> 1,
             owner    |-> 0]]

\* collect(): the children of the closures, in iteration order.
RECURSIVE collect(_)
collect(ts) == IF Len(ts) = 0 THEN <<>> ELSE ts[1].children \o collect(Tail(ts))

\* The counter's Mutex can be taken.
LockAlwaysAvailable == TRUE

\* Mutex::lock returns once no other thread holds the guard.
LockAvailable == counter_lock = 0

\* Populations whose individuals have been evaluated (run evaluates the
\* initial population before the first create_offspring), one order per
\* fitness profile: the operators shuffle, sort or count the population.
EvaluatedPopulations ==
    {pop \in {[i \in 1..Len(p) |-> evaluate(p[i])] : p \in InitialPopulations} :
        \A i \in 1..Len(pop), j \in 1..Len(pop) :
            i < j => fitness(pop[i]) <= fitness(pop[j])}

\* The driver is inside its first generation, about to call create_offspring;
\* the initial evaluation made one evaluate call per individual.
InitEval ==
    /\ population \in EvaluatedPopulations
    /\ fitness_func_counter = Len(population)
    /\ num_calls = Len(population)
    /\ counter_at_call = Len(population)
    /\ selection_operator = [kind |-> "NoSelection"]
    /\ variation_operator \in VariationOperators \ {[kind |-> "NoVariation"]}
    /\ target_fitness = None
    /\ goal = "Minimize"
    /\ evaluation_budget = MaxBudget
    /\ offspring = <<>>
    /\ pc = "call"
    /\ status = None
    /\ counter_lock = 0
    /\ tasks = <<>>
    /\ threads = <<>>
    /\ LibIdle

evalFixed == <<population, selection_operator, variation_operator,
               target_fitness, goal, evaluation_budget, status, counter_at_call,
               libVars>>

\* create_offspring starts: model estimation / shuffling and pairing are
\* sequential, then the parallel iterator hands its closures to the pool.
StartCreateOffspring ==
    /\ pc = "call"
    /\ ~VariationPanics(variation_operator, population)
    /\ \E offs \in create_offspring(variation_operator, population, goal) :
        tasks' = make_tasks(variation_operator,
                            [i \in 1..Len(offs) |-> offs[i].genotype])
    /\ threads' = [t \in 1..MaxThreads |-> [pc |-> "idle", task |-> 0, tmp |-> 0]]
    /\ pc' = "running"
    /\ UNCHANGED <<evalFixed, offspring, fitness_func_counter, num_calls, counter_lock>>

\* The sequential part of create_offspring panics (empty model input).
CreateOffspringPanic ==
    /\ pc = "call"
    /\ VariationPanics(variation_operator, population)
    /\ pc' = "panic"
    /\ UNCHANGED <<evalFixed, offspring, fitness_func_counter, num_calls,
                   counter_lock, tasks, threads>>

\* An idle worker claims a closure nobody has started (idle workers are
\* alike: the first of them takes it).
TakeTask ==
    \E t \in 1..Len(threads) :
        /\ pc \in {"running", "returned", "loop"}
        /\ threads[t].pc = "idle"
        /\ \A u \in 1..(t - 1) : threads[u].pc # "idle"
        /\ \E k \in 1..Len(tasks) :
            /\ tasks[k].owner = 0
            /\ tasks' = [tasks EXCEPT ![k].owner = t]
            /\ threads' = [threads EXCEPT ![t].pc = "evaluate", ![t].task = k]
        /\ UNCHANGED <<evalFixed, offspring, pc, fitness_func_counter, num_calls, counter_lock>>

\* evaluate, first two statements: call the fitness function on the child's
\* genotype and store the result in the child.
CallEvaluationFunc ==
    \E t \in 1..Len(threads) :
        /\ pc \in {"running", "returned", "loop"}
        /\ threads[t].pc = "evaluate"
        /\ LET k == threads[t].task
               j == tasks[k].next
           IN  tasks' = [tasks EXCEPT ![k].children[j] = evaluate(@),
                                      ![k].evals[j] = @ + 1]
        /\ num_calls' = num_calls + 1
        /\ threads' = [threads EXCEPT ![t].pc = "lock"]
        /\ UNCHANGED <<evalFixed, offspring, pc, fitness_func_counter, counter_lock>>

\* evaluate: self.counter.lock().unwrap().
Lock ==
    \E t \in 1..Len(threads) :
        /\ pc \in {"running", "returned", "loop"}
        /\ threads[t].pc = "lock"
        /\ LockAvailable
        /\ counter_lock' = t
        /\ threads' = [threads EXCEPT ![t].pc = "read"]
        /\ UNCHANGED <<evalFixed, offspring, pc, fitness_func_counter, num_calls, tasks>>

\* evaluate: *counter += 1, the load.
ReadCounter ==
    \E t \in 1..Len(threads) :
        /\ pc \in {"running", "returned", "loop"}
        /\ threads[t].pc = "read"
        /\ threads' = [threads EXCEPT ![t].pc = "write", ![t].tmp = fitness_func_counter]
        /\ UNCHANGED <<evalFixed, offspring, pc, fitness_func_counter, num_calls, tasks,
                       counter_lock>>

\* evaluate: *counter += 1, the store.
WriteCounter ==
    \E t \in 1..Len(threads) :
        /\ pc \in {"running", "returned", "loop"}
        /\ threads[t].pc = "write"
        /\ fitness_func_counter' = threads[t].tmp + 1
        /\ threads' = [threads EXCEPT ![t].pc = "unlock", ![t].tmp = 0]
        /\ UNCHANGED <<evalFixed, offspring, pc, num_calls, tasks, counter_lock>>

\* evaluate returns and drops the guard; the closure goes on with its next
\* evaluate call, or returns its children.
Unlock ==
    \E t \in 1..Len(threads) :
        /\ pc \in {"running", "returned", "loop"}
        /\ threads[t].pc = "unlock"
        /\ counter_lock' = 0
        /\ LET k == threads[t].task
           IN  IF tasks[k].next < closure_evaluations(variation_operator)
               THEN /\ tasks' = [tasks EXCEPT ![k].next = @ + 1]
                    /\ threads' = [threads EXCEPT ![t].pc = "evaluate"]
               ELSE /\ tasks' = [tasks EXCEPT ![k].next = 0]
                    /\ threads' = [threads EXCEPT ![t].pc = "idle", ![t].task = 0]
        /\ UNCHANGED <<evalFixed, offspring, pc, fitness_func_counter, num_calls>>

\* Every closure has been picked up by a worker.
QuiescentOncePickedUp ==
    \A k \in 1..Len(tasks) : tasks[k].owner # 0

\* Every closure has returned.
Quiescent ==
    /\ \A k \in 1..Len(tasks) : tasks[k].owner # 0 /\ tasks[k].next = 0
    /\ \A t \in 1..Len(threads) : threads[t].pc = "idle"

\* collect() gathers the children once every closure has returned, and
\* create_offspring returns them.
Collect ==
    /\ pc = "running"
    /\ Quiescent
    /\ offspring' = collect(tasks)
    /\ pc' = "returned"
    /\ UNCHANGED <<evalFixed, fitness_func_counter, num_calls, counter_lock, tasks, threads>>

\* run, "Perform selection" on the offspring create_offspring returned.
PerformSelection ==
    /\ pc = "returned"
    /\ ~SelectionPanics(selection_operator, population, offspring)
    /\ population' \in select(selection_operator, population, offspring, goal)
    /\ offspring' = <<>>
    /\ pc' = "loop"
    /\ UNCHANGED <<selection_operator, variation_operator, target_fitness, goal,
                   evaluation_budget, status, counter_at_call, libVars,
                   fitness_func_counter, num_calls, counter_lock, tasks, threads>>

NextEval ==
    \/ StartCreateOffspring
    \/ CreateOffspringPanic
    \/ TakeTask
    \/ CallEvaluationFunc
    \/ Lock
    \/ ReadCounter
    \/ WriteCounter
    \/ Unlock
    \/ Collect
    \/ PerformSelection

SpecEval == InitEval /\ [][NextEval]_vars

\* ------------------------------------------------------ evaluator claims
\* Threads between the call of the fitness function and the store of the
\* incremented counter.
InFlight ==
    Cardinality({t \in 1..Len(threads) : threads[t].pc \in {"lock", "read", "write"}})

\* C4: in every interleaving of the workers the evaluation counter never
\* decreases, no increment is lost (the counter is the number of evaluate
\* calls minus those still before their store), and once all workers have
\* finished evaluations() equals the number of evaluate calls made.
C4_CounterCountsCalls ==
    /\ [][fitness_func_counter' >= fitness_func_counter]_vars
    /\ [](fitness_func_counter + InFlight = num_calls)
    /\ []((pc \in {"running", "returned"} /\ Quiescent) => evaluations = num_calls)

\* C4's case: all workers have finished, and two different threads made
\* evaluate calls.
C4_Witness ==
    /\ pc = "returned"
    /\ \E k1, k2 \in 1..Len(tasks) : tasks[k1].owner # tasks[k2].owner
    /\ evaluations = num_calls
    /\ num_calls >= counter_at_call + 2

\* C5: when create_offspring returns, every returned child has its fitness
\* set (to the fitness function's value) and was passed to evaluate exactly
\* once, and evaluations() grew by exactly the number of returned children.
C5_ChildrenEvaluatedOnce ==
    pc = "returned" =>
        /\ \A i \in 1..Len(offspring) :
            /\ IsSome(offspring[i].fitness)
            /\ fitness(offspring[i]) = evaluation_func(offspring[i].genotype)
        /\ \A k \in 1..Len(tasks) : \A j \in 1..Len(tasks[k].children) :
            tasks[k].evals[j] = 1
        /\ offspring = collect(tasks)
        /\ evaluations = counter_at_call + Len(offspring)

\* C5's case: a crossover call returned the two children of one closure.
C5_Witness ==
    /\ pc = "returned"
    /\ variation_operator.kind \in CrossoverKinds
    /\ Len(offspring) = 2
    /\ Len(tasks) = 1 /\ tasks[1].owner # 0
    /\ evaluations = counter_at_call + 2

\* -------------------------------------------------- the driver at rest
\* No run is in progress (the population is set by each specification).
DriverIdle ==
    /\ fitness_func_counter = 0
    /\ selection_operator = [kind |-> "NoSelection"]
    /\ variation_operator = [kind |-> "NoVariation"]
    /\ target_fitness = None
    /\ goal = "Minimize"
    /\ evaluation_budget = 0
    /\ offspring = <<>>
    /\ pc = "idle"
    /\ status = None

\* ----------------------------------------------- Factorization, joined
\* Number of indices a factorization holds, repeats included.
RECURSIVE NumIndices(_)
NumIndices(factors) ==
    IF Len(factors) = 0 THEN 0 ELSE Len(factors[1]) + NumIndices(Tail(factors))

\* Factorization::univariate(L) for a genome of L >= 1 genes.
InitFact ==
    /\ cur_genome \in {[i \in 1..len |-> BoolDomain] : len \in 1..MaxFactLen}
    /\ cur_factorization = univariate(Len(cur_genome))
    /\ join_all_result = None
    /\ cur_model = None
    /\ cur_univariate = None
    /\ sampled = None
    /\ builder = None
    /\ cur_domain = [kind |-> "Integral", alleles |-> <<>>]
    /\ lookup = None
    /\ lib_pc = "ok"
    /\ population = <<>>
    /\ HistIdle
    /\ DriverIdle
    /\ EvalIdle

factFixed == <<gaVars, evalVars, histVars, cur_genome, cur_model, cur_univariate, sampled,
               builder, cur_domain, lookup, lib_pc>>

\* factorization = factorization.join(idx_a, idx_b), for any two positions
\* of the factorization.
Join ==
    /\ lib_pc = "ok"
    /\ \E idx_a \in 0..(Len(cur_factorization) - 1),
          idx_b \in 0..(Len(cur_factorization) - 1) :
        /\ NumIndices(join(cur_factorization, idx_a, idx_b))
                <= Len(cur_genome) + MaxRepeats
        /\ cur_factorization' = join(cur_factorization, idx_a, idx_b)
    /\ join_all_result' = None
    /\ UNCHANGED factFixed

\* factorization.join_all().collect()
JoinAll ==
    /\ lib_pc = "ok"
    /\ join_all_result = None
    /\ join_all_result' = Some(join_all(cur_factorization))
    /\ UNCHANGED <<factFixed, cur_factorization>>

NextFact == Join \/ JoinAll

SpecFact == InitFact /\ [][NextFact]_vars

\* --------------------------------------------------- factorization claims
\* Number of times idx occurs in the factor.
RECURSIVE Occurrences(_, _)
Occurrences(factor, idx) ==
    IF Len(factor) = 0 THEN 0
    ELSE (IF factor[1] = idx THEN 1 ELSE 0) + Occurrences(Tail(factor), idx)

\* C7: every factorization obtained from univariate(L) by joins with
\* 0 <= a, b < |F| is a partition of {0..L-1}: every factor is non-empty,
\* the factors are pairwise disjoint, and every index occurs exactly once.
C7_JoinKeepsPartition ==
    LET F == cur_factorization
        L == Len(cur_genome)
    IN  /\ \A f \in 1..Len(F) : Len(F[f]) > 0
        /\ \A f, h \in 1..Len(F) :
            f # h => \A i \in 1..Len(F[f]), j \in 1..Len(F[h]) : F[f][i] # F[h][j]
        /\ \A idx \in 0..(L - 1) :
            Cardinality({<<f, i>> \in (1..Len(F)) \X (1..(L + MaxRepeats)) :
                            i <= Len(F[f]) /\ F[f][i] = idx}) = 1
        /\ \A f \in 1..Len(F) : \A i \in 1..Len(F[f]) : F[f][i] \in 0..(L - 1)

\* Position (1-based) of the pair (a, b), 0 <= a < b < n, in the
\* lexicographic order of these pairs.
PairRank(n, a, b) == (a * (2 * n - a - 1)) \div 2 + (b - a)

\* The factors of F at positions other than a and b, in F's order.
Untouched(F, a, b) ==
    LET keep == {i \in 1..Len(F) : i - 1 # a /\ i - 1 # b}
        nth(k) == CHOOSE i \in keep : Cardinality({h \in keep : h < i}) = k - 1
    IN  [k \in 1..Cardinality(keep) |-> F[nth(k)]]

\* C9: join_all() of a factorization of n >= 1 factors yields join(a, b)
\* for exactly the pairs 0 <= a < b < n in lexicographic order: n(n-1)/2
\* pairwise distinct factorizations, each the untouched factors in their
\* order followed by factor a concatenated with factor b.
C9_JoinAllEnumeratesPairs ==
    IsSome(join_all_result) =>
        LET F == cur_factorization
            n == Len(F)
            R == Unwrap(join_all_result)
        IN  /\ n >= 1
            /\ Len(R) = (n * (n - 1)) \div 2
            /\ \A a \in 0..(n - 1), b \in 0..(n - 1) :
                a < b => R[PairRank(n, a, b)] =
                            Append(Untouched(F, a, b), F[a + 1] \o F[b + 1])
            /\ \A r, q \in 1..Len(R) : r # q => R[r] # R[q]

\* C9's case: join_all on a factorization of three factors, one of them
\* already joined, yielded its three joins.
C9_Witness ==
    /\ IsSome(join_all_result)
    /\ Len(cur_factorization) = 3
    /\ \E f \in 1..3 : Len(cur_factorization[f]) > 1
    /\ Len(Unwrap(join_all_result)) = 3

\* ------------------------------------------------- domain construction
\* Integral alleles of the constructors' arguments.
Alleles == 0..MaxAllele

\* The elements of a finite set of integers in increasing order
\* (collect into a Vec, then sort).
RECURSIVE SortedSeq(_)
SortedSeq(S) ==
    IF S = {} THEN <<>>
    ELSE LET m == CHOOSE x \in S : \A y \in S : x <= y
         IN <<m>> \o SortedSeq(S \ {m})

\* DisjointIntegralDomain::from_iter: the items as the iterator yields them.
from_iter(alleles) == [kind |-> "Integral", alleles |-> alleles]

\* DisjointIntegralDomain::empty
empty == [kind |-> "Integral", alleles |-> <<>>]

\* DiscreteDomain::from_range(lo..hi): range.collect()
from_range(lo, hi) ==
    from_iter([i \in 1..(IF hi > lo THEN hi - lo ELSE 0) |-> lo + i - 1])

\* DiscreteDomain::from_inclusive_range(lo..=hi): range.collect()
from_inclusive_range(lo, hi) ==
    from_iter([i \in 1..(IF hi >= lo THEN hi - lo + 1 ELSE 0) |-> lo + i - 1])

\* DisjointIntegralDomain::union: both domains' alleles through a HashSet,
\* sorted, collected.
union(self, other) ==
    from_iter(SortedSeq({self.alleles[i] : i \in 1..Len(self.alleles)}
                        \cup {other.alleles[i] : i \in 1..Len(other.alleles)}))

\* DisjointIntegralDomain::add: self when binary_search finds the allele,
\* else the allele inserted at the position binary_search reports.
\* BoolDomain::add: self.
add(self, allele) ==
    IF self.kind = "Bool" THEN self
    ELSE LET r == binary_search(self.alleles, allele)
         IN IF r[1] = "Ok" THEN self
            ELSE from_iter(SubSeq(self.alleles, 1, r[2]) \o <<allele>>
                           \o SubSeq(self.alleles, r[2] + 1, Len(self.alleles)))

\* The argument lists of idom!: literals l, ranges l..h and l..=h.
IdomItems ==
    {<<"lit", l>> : l \in Alleles}
    \cup {<<"range", l, h>> : l \in Alleles, h \in Alleles}
    \cup {<<"irange", l, h>> : l \in Alleles, h \in Alleles}

\* idom!: starting from empty(), add each literal and union each range,
\* left to right.
RECURSIVE idom(_, _)
idom(dom, items) ==
    IF Len(items) = 0 THEN dom
    ELSE LET it == items[1]
             next == IF it[1] = "lit" THEN add(dom, it[2])
                     ELSE IF it[1] = "range"
                          THEN union(dom, from_range(it[2], it[3]))
                          ELSE union(dom, from_inclusive_range(it[2], it[3]))
         IN idom(next, Tail(items))

\* Sequences over S of length at most n.
SeqsUpTo(S, n) == UNION {[1..k -> S] : k \in 0..n}

\* No domain has been built yet.
InitDom ==
    /\ cur_domain = empty
    /\ lookup = None
    /\ lib_pc = "ok"
    /\ cur_genome = <<>>
    /\ cur_factorization = <<>>
    /\ join_all_result = None
    /\ cur_model = None
    /\ cur_univariate = None
    /\ sampled = None
    /\ builder = None
    /\ population = <<>>
    /\ HistIdle
    /\ DriverIdle
    /\ EvalIdle

domFixed == <<gaVars, evalVars, histVars, cur_genome, cur_factorization, join_all_result,
              cur_model, cur_univariate, sampled, builder>>

\* bdom!()
NewBoolDomain ==
    /\ lib_pc = "ok"
    /\ cur_domain' = BoolDomain
    /\ lookup' = None
    /\ UNCHANGED <<domFixed, lib_pc>>

\* DisjointIntegralDomain::from_iter(items), or .collect()
FromIter ==
    /\ lib_pc = "ok"
    /\ \E items \in SeqsUpTo(Alleles, MaxDomainLen) : cur_domain' = from_iter(items)
    /\ lookup' = None
    /\ UNCHANGED <<domFixed, lib_pc>>

\* DisjointIntegralDomain::from_range(lo..hi)
FromRange ==
    /\ lib_pc = "ok"
    /\ \E lo \in Alleles, hi \in Alleles : cur_domain' = from_range(lo, hi)
    /\ lookup' = None
    /\ UNCHANGED <<domFixed, lib_pc>>

\* DisjointIntegralDomain::from_inclusive_range(lo..=hi)
FromInclusiveRange ==
    /\ lib_pc = "ok"
    /\ \E lo \in Alleles, hi \in Alleles : cur_domain' = from_inclusive_range(lo, hi)
    /\ lookup' = None
    /\ UNCHANGED <<domFixed, lib_pc>>

\* idom![items]
Idom ==
    /\ lib_pc = "ok"
    /\ \E items \in SeqsUpTo(IdomItems, MaxIdomItems) : cur_domain' = idom(empty, items)
    /\ lookup' = None
    /\ UNCHANGED <<domFixed, lib_pc>>

\* domain = domain.union(other), other built from a range.
Union ==
    /\ lib_pc = "ok"
    /\ cur_domain.kind = "Integral"
    /\ \E lo \in Alleles, hi \in Alleles :
        cur_domain' = union(cur_domain, from_inclusive_range(lo, hi))
    /\ lookup' = None
    /\ UNCHANGED <<domFixed, lib_pc>>

\* BoolDomain has no union of its own: the trait's collects the alleles
\* with BoolDomain::from_iter, which panics.
UnionBoolPanic ==
    /\ lib_pc = "ok"
    /\ cur_domain.kind = "Bool"
    /\ lib_pc' = "panic"
    /\ UNCHANGED <<domFixed, cur_domain, lookup>>

\* domain = domain.add(allele)
Add ==
    /\ lib_pc = "ok"
    /\ \E allele \in (IF cur_domain.kind = "Bool" THEN BOOLEAN ELSE Alleles) :
        /\ DomainLen(add(cur_domain, allele)) <= MaxDomainLen
        /\ cur_domain' = add(cur_domain, allele)
    /\ lookup' = None
    /\ UNCHANGED <<domFixed, lib_pc>>

\* domain.index_of(domain.get(idx)) for an idx below len(); the unwrap of
\* index_of panics when binary_search does not find the allele.
Lookup ==
    /\ lib_pc = "ok"
    /\ \E idx \in 0..(DomainLen(cur_domain) - 1) :
        LET allele == DomainGet(cur_domain, idx)
            found == DomainIndexOf(cur_domain, allele)
        IN  /\ lookup' = Some([idx |-> idx, allele |-> allele, index_of |-> found])
            /\ lib_pc' = IF IsSome(found) THEN "ok" ELSE "panic"
    /\ UNCHANGED <<domFixed, cur_domain>>

NextDom ==
    \/ NewBoolDomain
    \/ FromIter
    \/ FromRange
    \/ FromInclusiveRange
    \/ Idom
    \/ Union
    \/ UnionBoolPanic
    \/ Add
    \/ Lookup

SpecDom == InitDom /\ [][NextDom]_vars

\* -------------------------------------------------------- domain claims
\* C8: for every constructible discrete domain D and every i with
\* 0 <= i < D.len(), D.index_of(D.get(i)) returns i.
C8_IndexOfInvertsGet ==
    IsSome(lookup) =>
        /\ IsSome(Unwrap(lookup).index_of)
        /\ Unwrap(Unwrap(lookup).index_of) = Unwrap(lookup).idx

\* ------------------------------------------- multivariate model, fitted
\* The genomes a model is estimated over: Boolean genes alternating with
\* integral genes over 0..=MaxAllele.
ModelGenomes ==
    {[i \in 1..len |-> IF i % 2 = 1 THEN BoolDomain
                       ELSE from_inclusive_range(0, MaxAllele)] :
        len \in 1..MaxGenes}

\* The position of a genotype in the enumeration of its genome's genotypes.
GenotypeRank(genome, g) ==
    LinearIndex(genome, [i \in 1..Len(genome) |-> i - 1], g)

\* The populations over a genome (possibly empty), one order per multiset
\* of genotypes: estimation counts the individuals, whatever their order.
ModelPopulations(genome) ==
    {pop \in UNION {[1..n -> {from_genotype(g) : g \in GenotypesOf(genome)}] :
                        n \in 0..MaxPop} :
        \A i \in 1..(Len(pop) - 1) :
            GenotypeRank(genome, pop[i].genotype)
                <= GenotypeRank(genome, pop[i + 1].genotype)}

\* A genome, a population over it and the univariate factorization ECGA
\* starts from.
InitModel ==
    /\ cur_genome \in ModelGenomes
    /\ population \in ModelPopulations(cur_genome)
    /\ cur_factorization = univariate(Len(cur_genome))
    /\ cur_model = None
    /\ cur_univariate = None
    /\ sampled = None
    /\ builder = None
    /\ join_all_result = None
    /\ cur_domain = empty
    /\ lookup = None
    /\ lib_pc = "ok"
    /\ HistIdle
    /\ DriverIdle
    /\ EvalIdle

modelFixed == <<fitness_func_counter, selection_operator, variation_operator,
                target_fitness, goal, evaluation_budget, offspring, pc, status,
                evalVars, histVars, cur_genome, join_all_result, builder,
                cur_domain, lookup>>

\* select_model moves to one of the candidates of join_all(); the model
\* of the previous factorization and its sample are dropped.
JoinCandidate ==
    /\ lib_pc = "ok"
    /\ Len(cur_factorization) >= 1
    /\ \E c \in 1..Len(join_all(cur_factorization)) :
        cur_factorization' = join_all(cur_factorization)[c]
    /\ cur_model' = None
    /\ cur_univariate' = None
    /\ sampled' = None
    /\ UNCHANGED <<modelFixed, population, lib_pc>>

\* MultivariateModel::estimate_from_population(genome, population,
\* factorization) on a non-empty population; the new model replaces the
\* one under study (estimating the same model again changes nothing).
Estimate ==
    /\ lib_pc = "ok"
    /\ Len(population) > 0
    /\ cur_model = None
    /\ cur_model' = Some(estimate_from_population(cur_genome, population,
                                                  cur_factorization))
    /\ cur_univariate' = None
    /\ sampled' = None
    /\ lib_pc' = IF cur_model'[1].out_of_range THEN "panic" ELSE "ok"
    /\ UNCHANGED <<modelFixed, population, cur_factorization>>

\* estimate_from_population on an empty population: the assert panics
\* (model.rs:40 and model.rs:265).
EstimateAssert ==
    /\ lib_pc = "ok"
    /\ Len(population) = 0
    /\ lib_pc' = "panic"
    /\ UNCHANGED <<modelFixed, population, cur_factorization, cur_model,
                   cur_univariate, sampled>>

\* UnivariateModel::estimate_from_population(genome, population) on a
\* non-empty population; the new model replaces the one under study.
EstimateUnivariate ==
    /\ lib_pc = "ok"
    /\ Len(population) > 0
    /\ cur_univariate = None
    /\ cur_univariate' = Some(UnivariateCounts(cur_genome, population))
    /\ cur_model' = None
    /\ sampled' = None
    /\ UNCHANGED <<modelFixed, population, cur_factorization, lib_pc>>

\* UnivariateModel::sample on the model under study: one draw per model
\* (draws are independent, a second one reaches the same individuals).
SampleUnivariate ==
    /\ lib_pc = "ok"
    /\ IsSome(cur_univariate)
    /\ sampled = None
    /\ \E s \in UnivariateSamples(cur_genome, Unwrap(cur_univariate)) :
        sampled' = Some([individual |-> s,
                         factorization |-> univariate(Len(cur_genome))])
    /\ UNCHANGED <<modelFixed, population, cur_factorization, cur_model,
                   cur_univariate, lib_pc>>

\* MultivariateModel::sample on the model under study: one draw per model.
SampleMultivariate ==
    /\ lib_pc = "ok"
    /\ IsSome(cur_model)
    /\ sampled = None
    /\ \E s \in MultivariateSamples(cur_genome, Unwrap(cur_model)) :
        sampled' = Some([individual |-> s,
                         factorization |-> Unwrap(cur_model).factorization])
    /\ UNCHANGED <<modelFixed, population, cur_factorization, cur_model,
                   cur_univariate, lib_pc>>

NextModel ==
    \/ JoinCandidate
    \/ Estimate
    \/ EstimateAssert
    \/ EstimateUnivariate
    \/ SampleUnivariate
    \/ SampleMultivariate

SpecModel == InitModel /\ [][NextModel]_vars

\* ---------------------------------------------------------- model claims
\* Product of the domain sizes of the variables of a factor.
RECURSIVE DomainSizeProduct(_, _)
DomainSizeProduct(G, f) ==
    IF Len(f) = 0 THEN 1
    ELSE (IF G[f[1] + 1].kind = "Bool" THEN 2 ELSE Len(G[f[1] + 1].alleles))
         * DomainSizeProduct(G, Tail(f))

\* C10: for a model fit to a non-empty population P with a partition
\* factorization, the joint counts of every factor sum to |P|, the vector of
\* the factor has the product of its variables' domain sizes as length,
\* every linear index is within that length, and the sample size is |P|.
C10_CountsSumToPopulation ==
    IsSome(cur_model) =>
        LET M == Unwrap(cur_model)
            F == cur_factorization
        IN  /\ M.factorization = F
            /\ Len(M.counts) = Len(F)
            /\ \A f \in 1..Len(F) :
                /\ SumSeq(M.counts[f]) = Len(population)
                /\ Len(M.counts[f]) = DomainSizeProduct(cur_genome, F[f])
            /\ ~M.out_of_range
            /\ lib_pc = "ok"
            /\ M.sample_size = Len(population)

\* C10's case: a model fit to two different individuals over a joined
\* factor of a Boolean and an integral gene.
C10_Witness ==
    /\ IsSome(cur_model)
    /\ Len(population) = 2
    /\ population[1] # population[2]
    /\ Len(cur_factorization) = 1
    /\ Len(cur_factorization[1]) = 2
    /\ Len(Unwrap(cur_model).counts[1]) = 2 * (MaxAllele + 1)
\* C11: for the univariate model fit to a non-empty population P, the weight
\* stored for allele a at position i is the number of individuals of P whose
\* genotype holds a at position i; each position has one weight per allele
\* of its domain and the weights of a position sum to |P| > 0, so that the
\* probability of a at i is count(P, i, a) / |P|.
C11_WeightsAreAlleleCounts ==
    IsSome(cur_univariate) =>
        LET W == Unwrap(cur_univariate)
        IN  /\ Len(population) > 0
            /\ Len(W) = Len(cur_genome)
            /\ \A i \in 1..Len(cur_genome) :
                /\ Len(W[i]) = DomainLen(cur_genome[i])
                /\ SumSeq(W[i]) = Len(population)
                /\ \A k \in 0..(DomainLen(cur_genome[i]) - 1) :
                    W[i][k + 1] = Cardinality({j \in 1..Len(population) :
                        population[j].genotype[i] = DomainGet(cur_genome[i], k)})

\* A model over a Boolean and an integral gene, fit to several individuals
\* that split evenly on the first gene and all hold the last allele of the
\* second.
C11_Witness ==
    /\ IsSome(cur_univariate)
    /\ Len(cur_genome) = 2
    /\ Len(population) > 1
    /\ Unwrap(cur_univariate)[1][1] = Unwrap(cur_univariate)[1][2]
    /\ Unwrap(cur_univariate)[2][MaxAllele + 1] = Len(population)

\* C12: an individual sampled from a fitted model takes, on every factor
\* of the model (every single position for the univariate model), the
\* joint assignment of some individual of the population; a sample from a
\* model of identical individuals is that individual.
C12_SamplesStayInPopulation ==
    IsSome(sampled) =>
        LET S == Unwrap(sampled)
        IN  /\ S.individual.fitness = None
            /\ \A f \in 1..Len(S.factorization) :
                \E j \in 1..Len(population) :
                    \A v \in 1..Len(S.factorization[f]) :
                        S.individual.genotype[S.factorization[f][v] + 1]
                            = population[j].genotype[S.factorization[f][v] + 1]
            /\ (\A j \in 1..Len(population) : population[j] = population[1])
                    => S.individual.genotype = population[1].genotype

\* A sample of a model with a joined factor, fit to individuals that differ
\* on every gene of the factor.
C12_Witness ==
    /\ IsSome(sampled)
    /\ \E f \in 1..Len(Unwrap(sampled).factorization) :
            Len(Unwrap(sampled).factorization[f]) > 1
    /\ Len(population) > 1
    /\ \A i \in 1..Len(cur_genome) :
            population[1].genotype[i] # population[2].genotype[i]

\* ------------------------------------------- select on its own inputs
\* Evaluated individuals: two of them differ and have the same fitness.
SelIndividuals ==
    {evaluate(from_genotype(g)) :
        g \in {<<FALSE, FALSE>>, <<TRUE, FALSE>>, <<FALSE, TRUE>>}}

\* Vectors of evaluated individuals, the empty one included.
SelVectors == UNION {[1..n -> SelIndividuals] : n \in 0..MaxPop}

\* run has reached "Perform selection" with some population, some offspring
\* and some operator.
InitSel ==
    /\ population \in SelVectors
    /\ offspring \in SelVectors
    /\ selection_operator \in SelectionOperators
    /\ goal \in {"Minimize", "Maximize"}
    /\ pc = "select"
    /\ fitness_func_counter = Len(population) + Len(offspring)
    /\ variation_operator = [kind |-> "NoVariation"]
    /\ target_fitness = None
    /\ evaluation_budget = 0
    /\ status = None
    /\ EvalIdle
    /\ LibIdle

NextSel == Selection \/ SelectionPanic

SpecSel == InitSel /\ [][NextSel]_vars

\* -------------------------------------------------- selection claims
\* d divides n (zero divides zero only).
Divides(d, n) == \E c \in 0..n : n = c * d

\* The divisibility precondition of the tournament is violated:
\* pool_size mod k # 0 or (k * |population|) mod pool_size # 0.
PoolSizeMismatch(op, pop, offs) ==
    LET pool_size == Len(offs) + (IF op.include_parents THEN Len(pop) ELSE 0)
    IN  \/ ~Divides(op.tournament_size, pool_size)
        \/ ~Divides(pool_size, op.tournament_size * Len(pop))

\* C13: TournamentSelection.select with k >= 1 fails exactly when
\* pool_size mod k # 0 or (k * |population|) mod pool_size # 0, with
\* pool_size = |offspring| + (|population| if include_parents else 0).
C13_TournamentFailsOnMismatch ==
    [][(pc = "select" /\ selection_operator.kind = "Tournament"
            /\ selection_operator.tournament_size >= 1)
        => (pc' = "panic"
                <=> PoolSizeMismatch(selection_operator, population, offspring))]_vars

\* C13, on a pool that is not empty: select fails exactly on a mismatch.
C13_FailsOnMismatchNonEmptyPool ==
    [][(pc = "select" /\ selection_operator.kind = "Tournament"
            /\ Len(TournamentPool(selection_operator, population, offspring)) > 0)
        => (pc' = "panic"
                <=> PoolSizeMismatch(selection_operator, population, offspring))]_vars

\* C13, Truncation: select succeeds whatever the sizes.
C13_TruncationSucceeds ==
    [][(pc = "select" /\ selection_operator.kind = "Truncation")
        => pc' = "loop"]_vars

\* i's individual is strictly better than j's under the goal.
Better(g, a, b) == cmp(g, fitness(a), fitness(b)) = "Less"

\* The position of merged[i] in the stable order: after the strictly
\* better elements and after the equal elements that come before it.
StableRank(merged, g, i) ==
    1 + Cardinality({j \in 1..Len(merged) :
            \/ Better(g, merged[j], merged[i])
            \/ (j < i /\ cmp(g, fitness(merged[j]), fitness(merged[i])) = "Equal")})

\* C14: TruncationSelection.select on a population of size p leaves the
\* first p elements of (population followed by offspring) in stable order
\* by cmp: the result has size p and is ordered best-first, no discarded
\* individual is strictly better than a kept one, and of two individuals
\* of equal fitness the earlier one (a parent before an offspring) is kept
\* first.
C14_TruncationKeepsStableBest ==
    [][(pc = "select" /\ pc' = "loop" /\ selection_operator.kind = "Truncation")
        => LET merged == population \o offspring
               p == Len(population)
               rank == [i \in 1..Len(merged) |-> StableRank(merged, goal, i)]
           IN  /\ Len(population') = p
               /\ \A i \in 1..Len(merged) :
                    rank[i] <= p => population'[rank[i]] = merged[i]
               /\ \A i \in 1..(p - 1) :
                    ~Better(goal, population'[i + 1], population'[i])
               /\ \A i, j \in 1..Len(merged) :
                    (rank[i] <= p /\ rank[j] > p)
                        => /\ ~Better(goal, merged[j], merged[i])
                           /\ fitness(merged[i]) = fitness(merged[j]) => i < j]_vars

\* Truncation has returned a population of two individuals of equal
\* fitness that differ.
C14_Witness ==
    /\ pc = "loop"
    /\ selection_operator.kind = "Truncation"
    /\ offspring = <<>>
    /\ Len(population) > 1
    /\ fitness(population[1]) = fitness(population[2])
    /\ population[1] # population[2]

\* ------------------------------------------------------- ECGA claims
\* C15: on every evaluated population with |population| >= 1 and every
\* p_best in (0, 1], Ecga.create_offspring fits its model to the
\* floor(p_best * |population|) best individuals and returns exactly
\* |population| evaluated children.
C15_EcgaReturnsPopulationSizeChildren ==
    [][(/\ pc = "loop"
        /\ pc' \in {"select", "panic"}
        /\ variation_operator.kind = "Ecga"
        /\ Len(population) >= 1
        /\ \A i \in 1..Len(population) : IsSome(population[i].fitness)
        /\ variation_operator.p_best[1] > 0
        /\ variation_operator.p_best[1] <= variation_operator.p_best[2])
        => /\ pc' = "select"
           /\ Len(offspring') = Len(population)
           /\ \A i \in 1..Len(offspring') : IsSome(offspring'[i].fitness)]_vars

\* -------------------------------------------------- Individual claims
\* C16: the fitness of an individual is absent until the individual is
\* evaluated and set_fitness is applied to it once: the individual that
\* NoVariation hands to evaluate (the clone of a member of the population)
\* has no fitness yet.
C16_FitnessAbsentUntilEvaluated ==
    [][(pc = "loop" /\ pc' = "select" /\ variation_operator.kind = "NoVariation")
        => \A i \in 1..Len(population) : clone(population[i]).fitness = None]_vars

\* ------------------------------------------------------ SimpleGABuilder
\* SimpleGABuilder::new
new ==
    [genome |-> None, population |-> None, evaluation_func |-> None,
     goal |-> "Minimize", selection_operator |-> None,
     variation_operator |-> None, target_fitness |-> None, verbose |-> FALSE]

\* A required collaborator is missing, so that build adds the genome to the
\* fields it tests.
BuildPanicsWithoutGenome(b) ==
    \/ b.genome = None
    \/ b.population = None
    \/ b.evaluation_func = None
    \/ b.selection_operator = None
    \/ b.variation_operator = None

\* SimpleGABuilder::build panics: one of its four let-else tests fails.
BuildPanics(b) ==
    \/ b.population = None
    \/ b.evaluation_func = None
    \/ b.selection_operator = None
    \/ b.variation_operator = None

\* A builder fresh from new(); no SimpleGA has been built.
InitBuild ==
    /\ builder = Some(new)
    /\ population = <<>>
    /\ cur_genome = <<>>
    /\ cur_factorization = <<>>
    /\ join_all_result = None
    /\ cur_model = None
    /\ cur_univariate = None
    /\ sampled = None
    /\ cur_domain = [kind |-> "Integral", alleles |-> <<>>]
    /\ lookup = None
    /\ lib_pc = "ok"
    /\ HistIdle
    /\ DriverIdle
    /\ EvalIdle

buildFixed == <<evalVars, histVars, cur_genome, cur_factorization, join_all_result,
                cur_model, cur_univariate, sampled, cur_domain, lookup>>

\* What a builder method other than build leaves alone.
builderRest == <<gaVars, buildFixed, lib_pc>>

\* genome(genome)
BuilderGenome ==
    /\ pc = "idle" /\ lib_pc = "ok"
    /\ builder' = Some([Unwrap(builder) EXCEPT !.genome = Some(BoolGenome)])
    /\ UNCHANGED builderRest

\* with_population(population): one unevaluated individual per genotype.
BuilderWithPopulation ==
    /\ pc = "idle" /\ lib_pc = "ok"
    /\ \E pop \in {q \in InitialPopulations : Len(q) <= 1} :
        builder' = Some([Unwrap(builder) EXCEPT !.population = Some(pop)])
    /\ UNCHANGED builderRest

\* random_population(size) once the genome is set: size individuals
\* sampled uniformly.
BuilderRandomPopulation ==
    /\ pc = "idle" /\ lib_pc = "ok"
    /\ IsSome(Unwrap(builder).genome)
    /\ \E pop \in {q \in InitialPopulations : Len(q) <= 1} :
        builder' = Some([Unwrap(builder) EXCEPT !.population = Some(pop)])
    /\ UNCHANGED builderRest

\* random_population(size) before genome(): the let-else panics.
BuilderRandomPopulationPanic ==
    /\ pc = "idle" /\ lib_pc = "ok"
    /\ Unwrap(builder).genome = None
    /\ lib_pc' = "panic"
    /\ UNCHANGED <<gaVars, buildFixed, builder>>

\* goal(goal)
BuilderGoal ==
    /\ pc = "idle" /\ lib_pc = "ok"
    /\ \E g \in {"Minimize", "Maximize"} :
        builder' = Some([Unwrap(builder) EXCEPT !.goal = g])
    /\ UNCHANGED builderRest

\* evaluation_function(func)
BuilderEvaluationFunction ==
    /\ pc = "idle" /\ lib_pc = "ok"
    /\ builder' = Some([Unwrap(builder) EXCEPT !.evaluation_func = Some("one_max")])
    /\ UNCHANGED builderRest

\* selection(operator)
BuilderSelection ==
    /\ pc = "idle" /\ lib_pc = "ok"
    /\ \E op \in {[kind |-> "Truncation"], [kind |-> "NoSelection"]} :
        builder' = Some([Unwrap(builder) EXCEPT !.selection_operator = Some(op)])
    /\ UNCHANGED builderRest

\* variation(operator)
BuilderVariation ==
    /\ pc = "idle" /\ lib_pc = "ok"
    /\ \E op \in {[kind |-> "NoVariation"], [kind |-> "Umda"]} :
        builder' = Some([Unwrap(builder) EXCEPT !.variation_operator = Some(op)])
    /\ UNCHANGED builderRest

\* target(fitness)
BuilderTarget ==
    /\ pc = "idle" /\ lib_pc = "ok"
    /\ \E t \in 0..GenomeLen :
        builder' = Some([Unwrap(builder) EXCEPT !.target_fitness = Some(t)])
    /\ UNCHANGED builderRest

\* verbose(verbose)
BuilderVerbose ==
    /\ pc = "idle" /\ lib_pc = "ok"
    /\ \E v \in BOOLEAN :
        builder' = Some([Unwrap(builder) EXCEPT !.verbose = v])
    /\ UNCHANGED builderRest

\* build with every tested field present: the SimpleGA, its evaluator's
\* counter at zero (builder keeps the value build consumed).
Build ==
    /\ pc = "idle"
    /\ lib_pc = "ok"
    /\ ~BuildPanics(Unwrap(builder))
    /\ population' = Unwrap(Unwrap(builder).population)
    /\ fitness_func_counter' = 0
    /\ goal' = Unwrap(builder).goal
    /\ selection_operator' = Unwrap(Unwrap(builder).selection_operator)
    /\ variation_operator' = Unwrap(Unwrap(builder).variation_operator)
    /\ target_fitness' = Unwrap(builder).target_fitness
    /\ pc' = "start"
    /\ UNCHANGED <<evaluation_budget, offspring, status, buildFixed, builder,
                   lib_pc>>

\* build with a tested field absent: panic!("Failed to build: ...").
BuildPanic ==
    /\ pc = "idle"
    /\ lib_pc = "ok"
    /\ BuildPanics(Unwrap(builder))
    /\ pc' = "panic"
    /\ UNCHANGED <<population, fitness_func_counter, selection_operator,
                   variation_operator, target_fitness, goal, evaluation_budget,
                   offspring, status, buildFixed, builder, lib_pc>>

NextBuild ==
    \/ BuilderGenome
    \/ BuilderWithPopulation
    \/ BuilderRandomPopulation
    \/ BuilderRandomPopulationPanic
    \/ BuilderGoal
    \/ BuilderEvaluationFunction
    \/ BuilderSelection
    \/ BuilderVariation
    \/ BuilderTarget
    \/ BuilderVerbose
    \/ Build
    \/ BuildPanic

SpecBuild == InitBuild /\ [][NextBuild]_vars

\* ---------------------------------------------------- builder claims
\* C17: build fails whenever a required field (genome, population,
\* evaluation function, goal, selection, variation) has not been supplied,
\* whatever the order of the builder calls; the goal always has a value in
\* the builder, so that the fields whose absence shows are the other five.
C17_BuildFailsOnMissingField ==
    (builder # None /\ pc # "idle") =>
        (pc = "panic" <=>
            \/ Unwrap(builder).genome = None
            \/ Unwrap(builder).population = None
            \/ Unwrap(builder).evaluation_func = None
            \/ Unwrap(builder).selection_operator = None
            \/ Unwrap(builder).variation_operator = None)

\* C17, amended: build fails exactly when the population, the evaluation
\* function, the selection operator or the variation operator has not been
\* supplied, whatever the order of the calls and whether or not genome,
\* goal, target and verbose were called; when it succeeds the SimpleGA
\* holds the supplied population, operators and target, and the supplied
\* goal or Minimize.
C17_BuildFailsOnMissingCollaborator ==
    (builder # None /\ pc # "idle") =>
        LET b == Unwrap(builder)
        IN  /\ pc \in {"start", "panic"}
            /\ pc = "panic" <=>
                    \/ b.population = None
                    \/ b.evaluation_func = None
                    \/ b.selection_operator = None
                    \/ b.variation_operator = None
            /\ pc = "start" =>
                    /\ b.population = Some(population)
                    /\ b.selection_operator = Some(selection_operator)
                    /\ b.variation_operator = Some(variation_operator)
                    /\ b.target_fitness = target_fitness
                    /\ b.goal = goal
                    /\ fitness_func_counter = 0

\* A SimpleGA built without genome, target or verbose, its population
\* given by with_population and its goal set to Maximize.
C17_Witness ==
    /\ builder # None
    /\ pc = "start"
    /\ Unwrap(builder).genome = None
    /\ Unwrap(builder).target_fitness = None
    /\ ~Unwrap(builder).verbose
    /\ goal = "Maximize"
    /\ Len(population) = 1

\* ----------------------------------------------- union and add claims
\* The alleles a domain holds.
DomainAlleles(d) == {DomainGet(d, k) : k \in 0..(DomainLen(d) - 1)}

\* A domain in canonical order: false, true, or strictly ascending
\* integers (no duplicates).
IsCanonical(d) ==
    \/ d.kind = "Bool"
    \/ \A i \in 1..(Len(d.alleles) - 1) : d.alleles[i] < d.alleles[i + 1]

\* A union or add call on a canonical domain returns a canonical domain
\* that holds the alleles of the inputs and no other.
UnionAndAddCorrect ==
    /\ lib_pc' = "ok"
    /\ IsCanonical(cur_domain')
    /\ cur_domain'.kind = cur_domain.kind
    /\ Union => \E lo \in Alleles, hi \in Alleles :
            DomainAlleles(cur_domain') = DomainAlleles(cur_domain) \cup (lo..hi)
    /\ Add => \E a \in DomainAlleles(cur_domain') :
            DomainAlleles(cur_domain') = DomainAlleles(cur_domain) \cup {a}

\* C18: for every built-in discrete domain D (Boolean or disjoint integral)
\* in canonical order, D.union(E) and D.add(a) succeed and return a domain
\* whose alleles are exactly those of the inputs, without duplicates and in
\* canonical ascending order.
C18_UnionAndAddSucceed ==
    [][(IsCanonical(cur_domain) /\ (Union \/ UnionBoolPanic \/ Add))
        => UnionAndAddCorrect]_vars

\* C18, on the disjoint integral domain alone.
C18_IntegralUnionAndAdd ==
    [][(IsCanonical(cur_domain) /\ cur_domain.kind = "Integral" /\ (Union \/ Add))
        => UnionAndAddCorrect]_vars

\* ----------------------------------------------- happens-before claims
\* C19: all evaluate calls made by a generation's create_offspring, on any
\* worker, complete before create_offspring returns, hence before the
\* selection of that generation and before the next generation: once the
\* call has returned every closure is finished, every worker is idle, the
\* counter's lock is free, every call made has been counted, and no later
\* step evaluates anything.
C19_EvaluationsCompleteBeforeReturn ==
    /\ [](pc \in {"returned", "loop"} =>
            /\ \A t \in 1..Len(threads) : threads[t].pc = "idle"
            /\ \A k \in 1..Len(tasks) : tasks[k].owner # 0 /\ tasks[k].next = 0
            /\ \A k \in 1..Len(tasks) : \A j \in 1..Len(tasks[k].children) :
                    tasks[k].evals[j] >= 1
            /\ counter_lock = 0
            /\ evaluations = num_calls)
    /\ [][(pc \in {"returned", "loop"})
            => UNCHANGED <<tasks, threads, num_calls, fitness_func_counter,
                           counter_lock>>]_vars

\* Selection has run on the children of closures that two different
\* workers evaluated.
C19_Witness ==
    /\ pc = "loop"
    /\ \E k1, k2 \in 1..Len(tasks) : tasks[k1].owner # tasks[k2].owner
    /\ num_calls >= counter_at_call + 2

\* ------------------------------------- the population of the tests
\* tests::compressed_population_complexity and tests::model_complexity:
\* eight individuals over four Boolean variables.
TestPopulation ==
    <<from_genotype(<<TRUE, FALSE, FALSE, FALSE>>),
      from_genotype(<<TRUE, TRUE, FALSE, TRUE>>),
      from_genotype(<<FALSE, TRUE, TRUE, TRUE>>),
      from_genotype(<<TRUE, TRUE, FALSE, FALSE>>),
      from_genotype(<<FALSE, FALSE, TRUE, FALSE>>),
      from_genotype(<<FALSE, TRUE, TRUE, TRUE>>),
      from_genotype(<<TRUE, FALSE, FALSE, FALSE>>),
      from_genotype(<<TRUE, FALSE, FALSE, TRUE>>)>>

\* Genome::with_bool_domain() for N = 4.
TestGenome == [i \in 1..Len(TestPopulation[1].genotype) |-> BoolDomain]

\* The genome of the tests, the first individuals of their population (all
\* of them, some, or none) and the univariate factorization.
InitTest ==
    /\ cur_genome = TestGenome
    /\ \E n \in 0..Len(TestPopulation) : population = SubSeq(TestPopulation, 1, n)
    /\ cur_factorization = univariate(Len(cur_genome))
    /\ cur_model = None
    /\ cur_univariate = None
    /\ sampled = None
    /\ builder = None
    /\ join_all_result = None
    /\ cur_domain = empty
    /\ lookup = None
    /\ lib_pc = "ok"
    /\ HistIdle
    /\ DriverIdle
    /\ EvalIdle

SpecTest == InitTest /\ [][NextModel]_vars

\* -------------------------------------------------- complexity claims
\* x, in millionths, is within 0.1 of the given number of tenths.
WithinTenth(x, tenths) ==
    /\ x >= (tenths - 1) * 100000
    /\ x <= (tenths + 1) * 100000

\* The sum over the factors of (number of joint assignments - 1).
FreeParameters(model) ==
    SumSeq([f \in 1..Len(model.counts) |-> Len(model.counts[f]) - 1])

\* C20: for the 8-individual population of the tests over 4 Boolean
\* variables, the compressed-population complexity is 31.3 +/- 0.1 for the
\* univariate factorization and 23.6 +/- 0.1 for join(0, 2), the model
\* complexity log2(N + 1) * sum_f(|p_f| - 1) is 12.7 +/- 0.1 (sum 4) for the
\* univariate factorization and 15.8 +/- 0.1 (sum 5) for join(0, 2).
C20_ComplexitiesOfTestPopulation ==
    (IsSome(cur_model) /\ population = TestPopulation) =>
        LET M == Unwrap(cur_model)
            U == univariate(Len(TestGenome))
        IN  /\ M.sample_size = Len(TestPopulation)
            /\ model_complexity(M)
                    = Log2Micro(Len(TestPopulation) + 1) * FreeParameters(M)
            /\ cur_factorization = U =>
                    /\ WithinTenth(compressed_population_complexity(M), 313)
                    /\ FreeParameters(M) = 4
                    /\ WithinTenth(model_complexity(M), 127)
            /\ cur_factorization = join(U, 0, 2) =>
                    /\ WithinTenth(compressed_population_complexity(M), 236)
                    /\ FreeParameters(M) = 5
                    /\ WithinTenth(model_complexity(M), 158)

\* The model of join(0, 2) estimated from the whole population.
C20_Witness ==
    /\ IsSome(cur_model)
    /\ population = TestPopulation
    /\ cur_factorization = join(univariate(Len(TestGenome)), 0, 2)
    /\ WithinTenth(compressed_population_complexity(Unwrap(cur_model)), 236)

\* ------------------------------------------------ greedy linkage search
\* The genomes the search runs over: up to MaxGenes Boolean genes among
\* genes of one allele (over the latter every factorization has the same
\* complexity).
SearchGenomes ==
    {g \in UNION {[1..len -> {BoolDomain, from_inclusive_range(0, 0)}] :
                    len \in 1..(MaxGenes + 1)} :
        Cardinality({i \in 1..Len(g) : g[i] = BoolDomain}) <= MaxGenes}

\* The factorizations a search starts from: the univariate one, and the one
\* with its first two factors joined.
SearchFactorizations(len) ==
    {univariate(len)}
        \cup (IF len > 1 THEN {join(univariate(len), 0, 1)} ELSE {})

\* Ecga::select_model is about to be called on a selection (possibly empty).
InitSearch ==
    /\ cur_genome \in SearchGenomes
    /\ population \in ModelPopulations(cur_genome)
    /\ cur_factorization \in SearchFactorizations(Len(cur_genome))
    /\ cur_model = None
    /\ HistIdle
    /\ cur_univariate = None
    /\ sampled = None
    /\ builder = None
    /\ join_all_result = None
    /\ cur_domain = empty
    /\ lookup = None
    /\ lib_pc = "ok"
    /\ DriverIdle
    /\ EvalIdle

searchFixed == <<gaVars, evalVars, cur_genome, cur_factorization,
                 join_all_result, cur_univariate, sampled, builder, cur_domain,
                 lookup>>

\* The candidates of a round, fit to the selection (ecga.rs:60-65).
candidate_models(genome, selection, model) ==
    LET candidates == join_all(model.factorization)
    IN [c \in 1..Len(candidates) |->
            estimate_from_population(genome, selection, candidates[c])]

\* A choice of the round's candidate that takes the first one, whatever
\* its complexity.
first_candidate(models) == models[1]

\* The round's best_model: min_by over combined_complexity (ecga.rs:66-70).
best_candidate(models) == models[min_by_complexity(models, 1, 2)]

\* A test that takes a candidate only when it is strictly less complex.
accepts_strictly(best_model, model) ==
    combined_complexity(best_model) < combined_complexity(model)

\* A test that takes every candidate.
accepts_always(best_model, model) ==
    combined_complexity(best_model) >= 0

\* The test of ecga.rs:75.
accepts(best_model, model) ==
    combined_complexity(best_model) <= combined_complexity(model)

\* ecga.rs:53-57: the model of the initial factorization.
SelectModelStart ==
    /\ lib_pc = "ok"
    /\ Len(population) > 0
    /\ cur_model' = Some(estimate_from_population(cur_genome, population,
                                                  cur_factorization))
    /\ model_history' = cur_model'
    /\ lib_pc' = "loop"
    /\ UNCHANGED <<searchFixed, population, cur_best_model>>

\* model.rs:265: the estimate asserts a non-empty population.
SelectModelAssert ==
    /\ lib_pc = "ok"
    /\ Len(population) = 0
    /\ lib_pc' = "panic"
    /\ UNCHANGED <<searchFixed, population, cur_model, cur_best_model, model_history>>

\* ecga.rs:60-70: the round's candidates are fit and the least complex is
\* bound to cur_best_model.
SelectModelBest ==
    /\ lib_pc = "loop"
    /\ LET models == candidate_models(cur_genome, population, cur_model[1])
       IN /\ Len(models) > 0
          /\ cur_best_model' = Some(best_candidate(models))
    /\ lib_pc' = "test"
    /\ UNCHANGED <<searchFixed, population, cur_model, model_history>>

\* ecga.rs:71-73: no candidate (min_by gives None), the loop breaks.
SelectModelNoCandidate ==
    /\ lib_pc = "loop"
    /\ Len(join_all(cur_model[1].factorization)) = 0
    /\ lib_pc' = "returned"
    /\ UNCHANGED <<searchFixed, population, cur_model, cur_best_model, model_history>>

\* ecga.rs:75-76: cur_best_model replaces the model and the loop goes on.
SelectModelAccept ==
    /\ lib_pc = "test"
    /\ accepts(cur_best_model[1], cur_model[1])
    /\ cur_model' = cur_best_model
    /\ model_history' = Append(model_history, cur_best_model[1])
    /\ lib_pc' = "loop"
    /\ UNCHANGED <<searchFixed, population, cur_best_model>>

\* ecga.rs:77-79: cur_best_model is more complex, the loop breaks.
SelectModelBreak ==
    /\ lib_pc = "test"
    /\ ~accepts(cur_best_model[1], cur_model[1])
    /\ lib_pc' = "returned"
    /\ UNCHANGED <<searchFixed, population, cur_model, cur_best_model, model_history>>

NextSearch ==
    \/ SelectModelStart
    \/ SelectModelAssert
    \/ SelectModelBest
    \/ SelectModelNoCandidate
    \/ SelectModelAccept
    \/ SelectModelBreak

SpecSearch == InitSearch /\ [][NextSearch]_vars

\* The position of the thread that called select_model moves on: every
\* step of NextSearch moves it, and one is enabled at each position before
\* the return or the panic.
SelectModelAdvances ==
    /\ lib_pc \in {"ok", "loop", "test"}
    /\ lib_pc' \in {"loop", "test", "returned", "panic"}

\* The thread keeps running until select_model returns or panics.
FairSpecSearch == SpecSearch /\ WF_lib_pc(SelectModelAdvances)

\* ------------------------------------------------ linkage search claims
\* The combined complexity of a factorization fit to a selection.
CC(genome, selection, F) ==
    combined_complexity(estimate_from_population(genome, selection, F))

\* The reference flat loop, as the set of its possible results (one per
\* way of breaking ties among minimum-CC candidates): best = fit(F); each
\* round takes a minimum-CC candidate among the joins of two factors of
\* best, replaces best iff CC(candidate) <= CC(best), else stops; it stops
\* too when there is no candidate.
RECURSIVE ReferenceLoop(_, _, _)
ReferenceLoop(genome, selection, best) ==
    LET pairs == {p \in (0..(Len(best) - 1)) \X (0..(Len(best) - 1)) : p[1] < p[2]}
        scored == {[F |-> join(best, p[1], p[2]),
                    cc |-> CC(genome, selection, join(best, p[1], p[2]))] :
                        p \in pairs}
        least == {s \in scored : \A d \in scored : s.cc <= d.cc}
        cc_best == CC(genome, selection, best)
    IN IF scored = {} THEN {best}
       ELSE UNION {IF s.cc <= cc_best
                   THEN ReferenceLoop(genome, selection, s.F)
                   ELSE {best} : s \in least}

\* C21: for every selection, select_model started from a factorization F
\* returns a factorization the reference flat loop returns (the one of the
\* recursive formulation too); every model the search has held after the
\* first is one candidate of the round before it, a join of two factors of
\* the model held then, of combined complexity not strictly greater.
C21_SelectModelRefinesFlatLoop ==
    /\ lib_pc = "returned" =>
            /\ cur_model[1].factorization
                \in ReferenceLoop(cur_genome, population, cur_factorization)
            /\ cur_model[1] = select_model(cur_genome, cur_factorization, population)
    /\ \A i \in 1..(Len(model_history) - 1) :
            /\ combined_complexity(model_history[i + 1])
                    <= combined_complexity(model_history[i])
            /\ \E c \in 1..Len(join_all(model_history[i].factorization)) :
                    model_history[i + 1].factorization
                        = join_all(model_history[i].factorization)[c]

\* A search that accepted two candidates, a strict improvement among them,
\* and returned.
C21_Witness ==
    /\ lib_pc = "returned"
    /\ Len(model_history) = 3
    /\ combined_complexity(model_history[2]) < combined_complexity(model_history[1])

\* C22 as stated: an equal-CC candidate is accepted at most once, i.e. the
\* search never accepts an equal-CC candidate in the round after one in
\* which it accepted an equal-CC candidate.
C22_EqualCandidateAcceptedOnce ==
    \A i \in 1..(Len(model_history) - 2) :
        ~(/\ combined_complexity(model_history[i + 1])
                = combined_complexity(model_history[i])
          /\ combined_complexity(model_history[i + 2])
                = combined_complexity(model_history[i + 1]))

\* C22, amended: a best candidate whose combined complexity equals the
\* current model's is accepted in every round, also right after another
\* equal one; the search halts only when there is no candidate or every
\* candidate is strictly more complex than the current model, and it
\* accepts fewer candidates than the initial factorization has factors.
C22_EqualCandidateAcceptedEachRound ==
    [][/\ (/\ lib_pc = "test"
           /\ combined_complexity(cur_best_model[1])
                = combined_complexity(cur_model[1]))
            => (/\ lib_pc' = "loop"
                /\ cur_model' = cur_best_model
                /\ model_history' = Append(model_history, cur_best_model[1]))
       /\ lib_pc' = "returned"
            => \A c \in 1..Len(join_all(cur_model'[1].factorization)) :
                    CC(cur_genome, population,
                       join_all(cur_model'[1].factorization)[c])
                        > combined_complexity(cur_model'[1])
       /\ Len(model_history') <= Max2(1, Len(cur_factorization))]_vars

\* A search that accepted an equal candidate in two rounds running.
C22_Witness ==
    /\ lib_pc = "returned"
    /\ \E i \in 1..(Len(model_history) - 2) :
        /\ combined_complexity(model_history[i + 1])
                = combined_complexity(model_history[i])
        /\ combined_complexity(model_history[i + 2])
                = combined_complexity(model_history[i + 1])

\* Whether F is a partition of {0..L-1}: no empty factor, every entry an
\* index below L, every index once over all factors.
IsPartition(F, L) ==
    /\ \A f \in 1..Len(F) : Len(F[f]) > 0
    /\ \A f \in 1..Len(F) : \A i \in 1..Len(F[f]) : F[f][i] \in 0..(L - 1)
    /\ \A idx \in 0..(L - 1) :
        SumSeq([f \in 1..Len(F) |-> Occurrences(F[f], idx)]) = 1

\* C27: select_model started from univariate(L), L >= 1, terminates (on an
\* empty selection in the estimate's assert, before the search begins):
\* every accepted candidate has one factor fewer than the model it replaces,
\* so at most L - 1 are accepted; a model of a single factor has no
\* candidate and the search stops there; the returned factorization is a
\* partition of {0..L-1} and its combined complexity is <= that of every
\* model held before it.
C27_SearchTerminates ==
    LET L == Len(cur_genome)
        started == cur_factorization = univariate(L)
    IN /\ started ~> (\/ lib_pc = "returned"
                      \/ lib_pc = "panic" /\ population = <<>>)
       /\ [](started =>
            /\ \A i \in 1..(Len(model_history) - 1) :
                Len(model_history[i + 1].factorization)
                    = Len(model_history[i].factorization) - 1
            /\ Len(model_history) <= L
            /\ \A i \in 1..Len(model_history) :
                Len(join_all(model_history[i].factorization)) = 0
                    <=> Len(model_history[i].factorization) = 1
            /\ lib_pc = "returned" =>
                /\ IsPartition(cur_model[1].factorization, L)
                /\ cur_model[1] = model_history[Len(model_history)]
                /\ \A i \in 1..Len(model_history) :
                    combined_complexity(cur_model[1])
                        <= combined_complexity(model_history[i]))

\* A search from univariate(L) that accepted L - 1 candidates, L > 2, and
\* returned with a single factor.
C27_Witness ==
    /\ cur_factorization = univariate(Len(cur_genome))
    /\ lib_pc = "returned"
    /\ Len(cur_genome) > 2
    /\ Len(model_history) = Len(cur_genome)
    /\ Len(cur_model[1].factorization) = 1

\* ------------------------------------------------ linear index claims
\* Whether each cell of each factor of the estimated model counts the
\* individuals whose alleles on the factor have that cell as Index.
CellsCount(Index(_, _, _)) ==
    LET m == cur_model[1]
        fs == iter_factors(m.factorization)
    IN \A f \in 1..Len(fs) : \A k \in 1..Len(m.counts[f]) :
        m.counts[f][k] =
            Cardinality({j \in 1..Len(population) :
                Index(cur_genome, fs[f], population[j].genotype) = k - 1})

\* C23 as stated: the cell incremented for the outcome (a1..ak) of a factor
\* [i1..ik] is the sum over j of index_of(ij, aj) times the product of the
\* domain sizes of the variables before j (first variable least
\* significant).
C23_CellIsFirstLeastIndex ==
    cur_model # None => CellsCount(IndexFirstLeast)

\* C23, amended: the cell incremented is the sum over j of index_of(ij, aj)
\* times the product of the domain sizes of the variables after j: the
\* first variable of the factor is the most significant digit (the
\* lexicographic rank of the outcome), for equal and for mixed domain sizes.
C23_CellIsFirstMostIndex ==
    cur_model # None => CellsCount(IndexFirstMost)

\* A model with a factor of two variables of different domain sizes, fit to
\* an individual whose two linear indices differ.
C23_Witness ==
    /\ cur_model # None
    /\ \E f \in 1..Len(cur_model[1].factorization), j \in 1..Len(population) :
        LET factor == cur_model[1].factorization[f]
        IN /\ Len(factor) = 2
           /\ DomainLen(cur_genome[factor[1] + 1]) # DomainLen(cur_genome[factor[2] + 1])
           /\ IndexFirstLeast(cur_genome, factor, population[j].genotype)
                # IndexFirstMost(cur_genome, factor, population[j].genotype)

\* C24: for every factor of a fitted model and every tuple of allele
\* indices within the domains' sizes, unpacking as sample does the linear
\* index estimation computes for the tuple returns the tuple, and get on
\* the unpacked indices returns the alleles; every position of the genotype
\* is in exactly one factor, and a sample holds at each factor's positions
\* the alleles of an index the factor's categorical can draw.
C24_UnpackInvertsLinearIndex ==
    cur_model # None =>
        LET m == cur_model[1]
            fs == iter_factors(m.factorization)
        IN /\ \A f \in 1..Len(fs) : \A g \in GenotypesOf(cur_genome) :
                LET allele_idxs == Unpack(cur_genome, fs[f],
                                          LinearIndex(cur_genome, fs[f], g))
                IN /\ allele_idxs =
                        [j \in 1..Len(fs[f]) |->
                            Unwrap(DomainIndexOf(cur_genome[fs[f][j] + 1],
                                                 g[fs[f][j] + 1]))]
                   /\ \A j \in 1..Len(fs[f]) :
                        DomainGet(cur_genome[fs[f][j] + 1], allele_idxs[j])
                            = g[fs[f][j] + 1]
           /\ \A i \in 0..(Len(cur_genome) - 1) :
                SumSeq([f \in 1..Len(fs) |-> Occurrences(fs[f], i)]) = 1
           /\ sampled # None =>
                /\ Len(sampled[1].individual.genotype) = Len(cur_genome)
                /\ \A f \in 1..Len(fs) :
                    m.counts[f][LinearIndex(cur_genome, fs[f],
                                    sampled[1].individual.genotype) + 1] > 0

\* A sample of a model with a factor of two variables of different domain
\* sizes, whose first variable is not at its first allele.
C24_Witness ==
    /\ cur_model # None
    /\ sampled # None
    /\ \E f \in 1..Len(cur_model[1].factorization) :
        LET factor == cur_model[1].factorization[f]
        IN /\ Len(factor) = 2
           /\ DomainLen(cur_genome[factor[1] + 1]) # DomainLen(cur_genome[factor[2] + 1])
           /\ DomainIndexOf(cur_genome[factor[1] + 1],
                    sampled[1].individual.genotype[factor[1] + 1]) # Some(0)
           /\ DomainIndexOf(cur_genome[factor[2] + 1],
                    sampled[1].individual.genotype[factor[2] + 1]) # Some(0)

\* ---------------------------------------------------- tournament claims
\* Whether block (a round's winners) holds, for some order of the pool cut
\* into consecutive groups of k, one best member of each group in turn.
IsRoundOf(block, pool, k, g) ==
    \E shuffled \in Shuffles(pool) :
        /\ Len(block) = Len(pool) \div k
        /\ \A i \in 1..Len(block) :
            \E j \in (k * (i - 1) + 1)..(k * i) :
                /\ block[i] = shuffled[j]
                /\ \A h \in (k * (i - 1) + 1)..(k * i) :
                    ~Better(g, shuffled[h], block[i])

\* What C25 states of a tournament whose preconditions hold, but for the
\* survival of a best individual: the call returns, the new population is
\* (k * |population|) / pool_size rounds of pool_size / k winners each,
\* |population| pool members in all.
TournamentRoundsPost ==
    LET op == selection_operator
        k == op.tournament_size
        pool == TournamentPool(op, population, offspring)
        rounds == (k * Len(population)) \div Len(pool)
        per_round == Len(pool) \div k
    IN /\ pc' = "loop"
       /\ Len(population') = Len(population)
       /\ rounds * per_round = Len(population)
       /\ \A r \in 1..rounds :
            IsRoundOf(SubSeq(population', (r - 1) * per_round + 1, r * per_round),
                      pool, k, goal)
       /\ \A i \in 1..Len(population') : \E j \in 1..Len(pool) :
            population'[i] = pool[j]

\* An individual of the pool no pool member is better than is in the new
\* population.
BestOfPoolSurvives ==
    LET pool == TournamentPool(selection_operator, population, offspring)
    IN \E i \in 1..Len(population') :
        /\ \E j \in 1..Len(pool) : population'[i] = pool[j]
        /\ \A j \in 1..Len(pool) : ~Better(goal, pool[j], population'[i])

\* The tournament is called with a non-empty pool whose sizes meet the two
\* divisibility preconditions.
TournamentPreconditions ==
    /\ pc = "select"
    /\ selection_operator.kind = "Tournament"
    /\ Len(TournamentPool(selection_operator, population, offspring)) > 0
    /\ ~PoolSizeMismatch(selection_operator, population, offspring)

CrossIndividuals ==
    {evaluate(from_genotype(g)) :
        g \in {[i \in 1..(GenomeLen + 2) |-> FALSE],
               [i \in 1..(GenomeLen + 2) |-> TRUE],
               [i \in 1..(GenomeLen + 2) |-> i = 1]}}

\* run has reached "Perform variation" with a two-parent crossover and a
\* population of up to MaxPop + 1 evaluated individuals, within its budget.
InitCross ==
    /\ population \in UNION {[1..n -> CrossIndividuals] : n \in 0..(MaxPop + 1)}
    /\ variation_operator \in {op \in VariationOperators : op.kind \in CrossoverKinds}
    /\ selection_operator = [kind |-> "NoSelection"]
    /\ goal = "Minimize"
    /\ pc = "loop"
    /\ fitness_func_counter = Len(population)
    /\ evaluation_budget = Len(population) + 1
    /\ target_fitness = None
    /\ offspring = <<>>
    /\ status = None
    /\ EvalIdle
    /\ LibIdle

SpecCross == InitCross /\ [][Variation]_vars

\* ------------------------------------------------------ crossover claim
\* The sets of positions (as masks over 1..len) an operator may exchange:
\* any for uniform; all idx >= point, point in 0..len, for one-point; all
\* idx between two points of 0..len, both included, for two-point.
ExchangeMasks(op, len) ==
    IF op.kind = "UniformCrossover" THEN [1..len -> BOOLEAN]
    ELSE IF op.kind = "OnePointCrossover"
    THEN {[i \in 1..len |-> i - 1 >= point] : point \in 0..len}
    ELSE {[i \in 1..len |-> lo <= i - 1 /\ i - 1 <= hi] :
            <<lo, hi>> \in {p \in (0..len) \X (0..len) : p[1] <= p[2]}}

\* Whether child_a and child_b are parent_a and parent_b with the alleles
\* exchanged exactly on the positions of mask.
IsExchange(parent_a, parent_b, child_a, child_b, mask) ==
    /\ Len(child_a.genotype) = Len(parent_a.genotype)
    /\ Len(child_b.genotype) = Len(parent_b.genotype)
    /\ \A i \in 1..Len(parent_a.genotype) :
        /\ child_a.genotype[i] = (IF mask[i] THEN parent_b ELSE parent_a).genotype[i]
        /\ child_b.genotype[i] = (IF mask[i] THEN parent_a ELSE parent_b).genotype[i]

\* C26: a two-parent crossover pairs the shuffled population, every
\* individual in at most one pair, and returns 2 * floor(|population| / 2)
\* children; the two children of a pair hold the parents' alleles, exchanged
\* exactly on the positions the operator chose (any subset for uniform, all
\* i >= point for one-point, all i between the two points, both included,
\* for two-point) and copied elsewhere; the population is not modified.
C26_CrossoverExchangesAlleles ==
    [][(pc = "loop" /\ pc' = "select" /\ variation_operator.kind \in CrossoverKinds)
        => LET n == Len(population)
           IN /\ Len(offspring') = 2 * (n \div 2)
              /\ population' = population
              /\ \E order \in IndexPerms(1..n) :
                    \A i \in 1..(n \div 2) :
                        \E mask \in ExchangeMasks(variation_operator,
                                        Len(population[order[2 * i - 1]].genotype)) :
                            IsExchange(population[order[2 * i - 1]],
                                       population[order[2 * i]],
                                       offspring'[2 * i - 1], offspring'[2 * i],
                                       mask)]_vars

\* The children of a two-point crossover of an odd population: a pair whose
\* first child took one inner allele of the other parent, one individual
\* unused.
C26_Witness ==
    /\ pc = "select"
    /\ variation_operator.kind = "TwoPointCrossover"
    /\ Len(population) = 3
    /\ Len(offspring) = 2
    /\ offspring[1].genotype = [i \in 1..(GenomeLen + 2) |-> i = 2]

\* ------------------------------------------------------- run claims
\* The alleles present at position i (1-based) in a vector of individuals.
AllelesAt(pop, i) == {pop[j].genotype[i] : j \in 1..Len(pop)}

\* C28: in a run with built-in operators, at every position the set of
\* alleles present in the population never gains an element: no step of
\* run puts at position i an allele that no individual of the population
\* had there (nor do the offspring of a generation hold one).
C28_AllelesNeverReappear ==
    [][\A i \in 1..GenomeLen :
        /\ AllelesAt(population', i) \subseteq AllelesAt(population, i)
        /\ AllelesAt(offspring', i) \subseteq AllelesAt(population, i)]_vars

\* A run of a model-building operator that has gone through a generation
\* with a population of several individuals that all hold the same allele
\* at the first position.
C28_Witness ==
    /\ pc = "loop"
    /\ variation_operator.kind \in {"Umda", "Ecga"}
    /\ selection_operator.kind # "NoSelection"
    /\ fitness_func_counter > Len(population)
    /\ Len(population) > 1
    /\ Cardinality(AllelesAt(population, 1)) = 1

\* Fitness a is at least as good as fitness b under the goal.
NotWorse(g, a, b) == IF g = "Minimize" THEN a <= b ELSE a >= b

\* The best fitness of a non-empty evaluated population under the goal.
BestFitness(pop, g) ==
    CHOOSE v \in {fitness(pop[j]) : j \in 1..Len(pop)} :
        \A j \in 1..Len(pop) : NotWorse(g, v, fitness(pop[j]))

\* C29: in a run with TruncationSelection and any variation operator, once
\* the population is evaluated the fitness of best_individual() is the best
\* fitness of the population and no step makes it worse under the goal (a
\* non-empty population stays non-empty), and each selection leaves the
\* population sorted best-first.
C29_TruncationBestNeverWorse ==
    [][(selection_operator.kind = "Truncation" /\ pc # "start")
        => /\ (pc = "select" /\ pc' = "loop") =>
                \A i \in 1..(Len(population') - 1) :
                    NotWorse(goal, fitness(population'[i]), fitness(population'[i + 1]))
           /\ Len(population) > 0 =>
                /\ Len(population') > 0
                /\ fitness(best_individual(population', goal)[1])
                        = BestFitness(population', goal)
                /\ NotWorse(goal, BestFitness(population', goal),
                                  BestFitness(population, goal))]_vars

\* A run with TruncationSelection under Maximize whose selection replaced
\* the first of two individuals by a fitter child.
C29_Witness ==
    /\ selection_operator.kind = "Truncation"
    /\ goal = "Maximize"
    /\ pc = "loop"
    /\ fitness_func_counter > Len(population)
    /\ Len(population) > 1
    /\ fitness(population[1]) > fitness(population[2])

\* C30: run tests the target only at the start of an iteration entered with
\* evaluations() < budget: the status is set once, from the loop, to
\* TargetReached(n) only with n = evaluations() < budget and the target met,
\* and to BudgetReached(n) only with n = evaluations() >= budget, whether or
\* not the population then holds an individual that meets the target.
C30_TargetTestedOnlyWithinBudget ==
    [][/\ status' # status =>
            /\ status = None
            /\ pc = "loop" /\ pc' = "done"
            /\ UNCHANGED <<population, fitness_func_counter>>
            /\ IF evaluations < evaluation_budget
               THEN TargetMet /\ status' = Some(<<"TargetReached", evaluations>>)
               ELSE status' = Some(<<"BudgetReached", evaluations>>)
       /\ (pc = "loop" /\ evaluations >= evaluation_budget) =>
            status' = Some(<<"BudgetReached", evaluations>>)]_vars

\* A run that returned BudgetReached after a generation that exhausted the
\* budget, with a population that holds an individual meeting the target.
C30_Witness ==
    /\ pc = "done"
    /\ status = Some(<<"BudgetReached", evaluations>>)
    /\ evaluations > Len(population)
    /\ evaluations >= evaluation_budget
    /\ TargetMet

\* The same after the initial evaluation alone exhausted the budget.
C30_WitnessInitialEvaluation ==
    /\ pc = "done"
    /\ status = Some(<<"BudgetReached", evaluations>>)
    /\ evaluations = Len(population)
    /\ evaluation_budget > 0
    /\ TargetMet

\* ------------------------------------------------- run on a wider start
\* Unevaluated individuals over GenomeLen + 1 Boolean genes: true at the
\* first gene only, and true at the last gene only.  Crossing the two yields
\* fitness values neither of them has.
WideIndividuals ==
    {from_genotype(g) :
        g \in {[i \in 1..(GenomeLen + 1) |-> i = 1],
               [i \in 1..(GenomeLen + 1) |-> i = GenomeLen + 1]}}

\* The state after construction with such a population.
InitWide ==
    /\ EvalIdle
    /\ LibIdle
    /\ population \in UNION {[1..n -> WideIndividuals] : n \in 0..MaxPop}
    /\ fitness_func_counter = 0
    /\ selection_operator \in SelectionOperators
    /\ variation_operator \in VariationOperators
    /\ target_fitness \in {None} \cup {Some(t) : t \in 0..GenomeLen}
    /\ goal \in {"Minimize", "Maximize"}
    /\ evaluation_budget \in 0..MaxBudget
    /\ offspring = <<>>
    /\ pc = "start"
    /\ status = None

SpecWide == InitWide /\ [][Next]_vars

====
